---- MODULE Spec2Model ----
(***************************************************************************)
(* A model of the binary container layer of fb2c (FB2 -> MOBI converter):  *)
(* the PalmDB writer, the PalmDOC codec, the MOBI header writer, the       *)
(* MOBI 6 writer and the KF8 joint-file writer.                            *)
(*                                                                         *)
(* Byte strings are sequences of integers 0..255.  Go's 0-based slice      *)
(* positions are kept: Slice(d, a, b) is d[a:b] and At(d, p) is d[p].      *)
(***************************************************************************)
EXTENDS Integers, Sequences, FiniteSets, TLC

\* ---------------------------------------------------------------- bytes

\* d[a:b] of Go
Slice(d, a, b) == SubSeq(d, a + 1, b)

\* d[p] of Go
At(d, p) == d[p + 1]

\* "#"
Hash == 35
\* the double and the single quote
DQuote == 34
SQuote == 39

isQuote(b) == b = DQuote \/ b = SQuote

\* strings.HasPrefix(c[p:], prefix)
hasPrefixAt(c, p, prefix) == p + Len(prefix) <= Len(c) /\ Slice(c, p, p + Len(prefix)) = prefix

\* n copies of the periodic pattern pat, cut to n bytes
Repeat(pat, n) == [i \in 1..n |-> pat[((i - 1) % Len(pat)) + 1]]

RECURSIVE Concat(_)
\* the concatenation of a sequence of byte strings
Concat(ss) == IF ss = <<>> THEN <<>> ELSE Head(ss) \o Concat(Tail(ss))

RECURSIVE SumLen(_)
\* the total length of a sequence of byte strings
SumLen(ss) == IF ss = <<>> THEN 0 ELSE Len(Head(ss)) + SumLen(Tail(ss))

\* x XOR 0x80 on a byte
Xor80(x) == IF x >= 128 THEN x - 128 ELSE x + 128

\* ------------------------------------------------------- PalmDOC codec

\* findLZMatch: maxDistance
MaxDistance == 2047
\* findLZMatch: maxMatchLen
MaxMatchLen == 10
\* findLZMatch: minMatchLen
MinMatchLen == 3
\* findBinarySequence: minLen
BinMinLen == 2
\* findBinarySequence: maxLen
BinMaxLen == 8
\* the uncompressed size of a text record
RecordSize == 4096

NoMatch == [distance |-> 0, length |-> 0]

\* The inner loop of findLZMatch for one length: whether data[i:i+length]
\* matches the target data[pos:pos+length] without reaching into it, within
\* maxDistance
matchAt(data, pos, length, i) ==
    /\ i + length <= pos
    /\ pos - i <= MaxDistance
    /\ Slice(data, i, i + length) = Slice(data, pos, pos + length)

\* The inner loop scans i upwards from lookbackStart and stops at the first
\* match: the distance of the lowest matching i (0: none).
scanLookback(data, pos, length, start) ==
    IF \E i \in start..(pos - length) : matchAt(data, pos, length, i)
    THEN pos - (CHOOSE i \in start..(pos - length) :
                    /\ matchAt(data, pos, length, i)
                    /\ \A j \in start..(i - 1) : ~matchAt(data, pos, length, j))
    ELSE 0

RECURSIVE scanLengths(_, _, _)
\* The outer loop of findLZMatch: lengths from maxMatchLen down to minMatchLen,
\* the first length with a match wins.
scanLengths(data, pos, length) ==
    IF length < MinMatchLen THEN NoMatch
    ELSE IF pos + length > Len(data) THEN scanLengths(data, pos, length - 1)
    ELSE LET start == IF pos - MaxDistance < 0 THEN 0 ELSE pos - MaxDistance
             d == scanLookback(data, pos, length, start)
         IN  IF d > 0 THEN [distance |-> d, length |-> length]
             ELSE scanLengths(data, pos, length - 1)

findLZMatch(data, pos) ==
    IF pos = 0 THEN NoMatch ELSE scanLengths(data, pos, MaxMatchLen)

RECURSIVE runLength(_, _, _)
\* findBinarySequence's count of repeats of data[pos], capped at maxLen
runLength(data, pos, length) ==
    IF pos + length < Len(data) /\ At(data, pos + length) = At(data, pos)
          /\ length < BinMaxLen
    THEN runLength(data, pos, length + 1)
    ELSE length

\* findBinarySequence: the length of the run at pos (0: none)
findBinarySequence(data, pos) ==
    IF pos >= Len(data) THEN 0
    ELSE LET b == At(data, pos)
         IN  IF b <= 7 \/ b >= 128
             THEN LET n == runLength(data, pos, 1)
                  IN  IF n >= BinMinLen THEN n ELSE 0
             ELSE 0

\* the two bytes of the 16-bit big-endian value code
BE16(code) == << (code \div 256) % 256, code % 256 >>

\* 0x8000 | ((distance & 0x3FFF) << 3) | (length - 3), as uint16.  The distance
\* is at most 2047, so the shifted value has its low three bits clear and stays
\* below 0x4000: the ORs are sums.
lzCode(m) == (32768 + (((m.distance % 16384) * 8) % 65536) + (m.length - 3)) % 65536

\* 0x8001 | ((length-1) << 8) | byte, as uint16, by bits: the high byte is
\* 0x80 | (length-1) (length-1 <= 7), the low byte is 0x01 | byte.
binCode(n, b) == (128 + (n - 1)) * 256 + (IF b % 2 = 1 THEN b ELSE b + 1)

\* One turn of compressRecord's loop, on st = [pos, out]
compressStep(data, st) ==
    LET pos == st.pos
        m == findLZMatch(data, pos)
    IN  IF m.length >= 3
        THEN [pos |-> pos + m.length, out |-> st.out \o BE16(lzCode(m))]
        ELSE IF pos + 1 < Len(data) /\ At(data, pos) = 32
                 /\ At(data, pos + 1) >= 64 /\ At(data, pos + 1) <= 127
        THEN [pos |-> pos + 2, out |-> st.out \o <<Xor80(At(data, pos + 1))>>]
        ELSE LET n == findBinarySequence(data, pos)
             IN  IF n > 0
                 THEN [pos |-> pos + n,
                       out |-> st.out \o BE16(binCode(n, At(data, pos)))]
                 ELSE [pos |-> pos + 1, out |-> st.out \o <<At(data, pos)>>]

RECURSIVE compressLoop(_, _, _)
\* At most n turns of compressRecord's loop from st, ending when pos reaches
\* the end of the data (the turns are halved to keep the evaluation shallow)
compressLoop(data, st, n) ==
    IF st.pos >= Len(data) \/ n <= 0 THEN st
    ELSE IF n = 1 THEN compressStep(data, st)
    ELSE compressLoop(data, compressLoop(data, st, n \div 2), n - (n \div 2))

\* every turn consumes at least one byte: Len(data) turns are enough
compressRecord(data) == compressLoop(data, [pos |-> 0, out |-> <<>>], Len(data)).out

\* the end of the record that starts at i
recEnd(data, i) == IF i + RecordSize > Len(data) THEN Len(data) ELSE i + RecordSize

RECURSIVE compressPalmDOCFrom(_, _)
\* CompressPalmDOC's loop from offset i on: each record compressed, and after
\* every non-final record its last uncompressed byte
compressPalmDOCFrom(data, i) ==
    IF i >= Len(data) THEN <<>>
    ELSE LET end == recEnd(data, i)
             record == Slice(data, i, end)
         IN  compressRecord(record)
                 \o (IF end < Len(data) THEN <<record[Len(record)]>> ELSE <<>>)
                 \o compressPalmDOCFrom(data, end)

CompressPalmDOC(data) == compressPalmDOCFrom(data, 0)

\* One turn of DecompressPalmDOC's loop, on st = [pos, out]; a break moves pos
\* to the end
decompressStep(data, st) ==
    LET pos == st.pos
        byte1 == At(data, pos)
        stop == [pos |-> Len(data), out |-> st.out]
    IN  IF byte1 >= 128
        THEN IF pos + 1 >= Len(data) THEN stop
             ELSE LET byte2 == At(data, pos + 1)
                      code == byte1 * 256 + byte2
                      p2 == pos + 2
                  IN  IF code = 32768
                      THEN IF p2 >= Len(data) THEN stop
                           ELSE [pos |-> p2, out |-> st.out \o <<63>>]
                      ELSE IF code = 32769
                      THEN IF p2 >= Len(data) THEN stop
                           \* length = (code >> 8) & 0x3F = 0: val is read
                           \* and written zero times
                           ELSE [pos |-> p2 + 1, out |-> st.out]
                      ELSE IF byte2 # 0
                      THEN [pos |-> p2, out |-> st.out \o <<32, Xor80(byte2)>>]
                      ELSE [pos |-> p2, out |-> st.out \o <<byte1>>]
        ELSE [pos |-> pos + 1, out |-> st.out \o <<byte1>>]

RECURSIVE decompressLoop(_, _, _)
\* At most n turns of DecompressPalmDOC's loop from st
decompressLoop(data, st, n) ==
    IF st.pos >= Len(data) \/ n <= 0 THEN st
    ELSE IF n = 1 THEN decompressStep(data, st)
    ELSE decompressLoop(data, decompressLoop(data, st, n \div 2), n - (n \div 2))

DecompressPalmDOC(data) ==
    decompressLoop(data, [pos |-> 0, out |-> <<>>], Len(data)).out

\* CalculateRecordCount: Go's integer division truncates toward zero and its
\* remainder has the sign of the dividend
CalculateRecordCount(textSize) ==
    LET count == IF textSize >= 0 THEN textSize \div RecordSize
                 ELSE -((-textSize) \div RecordSize)
        remainder == textSize - RecordSize * count
    IN  count + (IF remainder # 0 THEN 1 ELSE 0)

RECURSIVE splitFrom(_, _)
\* splitTextRecords' loop from offset i on
splitFrom(data, i) ==
    IF i >= Len(data) THEN <<>>
    ELSE <<Slice(data, i, recEnd(data, i))>> \o splitFrom(data, recEnd(data, i))

splitTextRecords(data) == splitFrom(data, 0)

\* ------------------------------------------------------------ integers

\* A uint32 is held as the value of its bit pattern in 32-bit two's complement
\* (TLC's integers are 32 bits wide): 0..2^31-1 are themselves and 0xFFFFFFFF
\* is -1.  Division rounds down and % is non-negative, so the byte extraction
\* below is that of the unsigned value.

\* the four bytes of the 32-bit big-endian value v
BE32(v) == << (v \div 16777216) % 256, (v \div 65536) % 256,
              (v \div 256) % 256, v % 256 >>

\* the big-endian u32 stored at d[p:p+4]
U32At(d, p) ==
    (IF At(d, p) >= 128 THEN At(d, p) - 256 ELSE At(d, p)) * 16777216
        + At(d, p + 1) * 65536 + At(d, p + 2) * 256 + At(d, p + 3)

\* n zero bytes
Zeros(n) == [i \in 1..n |-> 0]

\* uint32(x) and uint16(x). A uint32 is held in two's complement (0xFFFFFFFF
\* is -1, 0x80000000 is -2^31), so the uint32 of an int of -2^31..2^31-1 has
\* the bits of the int itself: uint32(-1) is 0xFFFFFFFF, held as -1. Values
\* held this way are compared with uge, ult, ugt and ult32, and sums and
\* differences that can wrap are taken with add32 and sub32
U32(x) == x
U16(x) == x % 65536

\* a u32 held in two's complement: x >= c, x < c and x > c of uint32 for a
\* small non-negative c
uge(x, c) == x < 0 \/ x >= c
ult(x, c) == x >= 0 /\ x < c
ugt(x, c) == x < 0 \/ x > c

\* a < b of two uint32 held in two's complement
ult32(a, b) == IF (a < 0) = (b < 0) THEN a < b ELSE b < 0

\* the low and the high 16 bits of a uint32 held in two's complement
lo16(x) == x % 65536
hi16(x) == (x \div 65536) % 65536

\* the uint32 of the 16-bit halves hi and lo, in two's complement
from16(hi, lo) == (IF hi >= 32768 THEN hi - 65536 ELSE hi) * 65536 + lo

\* a - b and a + b of uint32, wrapping at 2^32, on two's complement values
sub32(a, b) ==
    LET lo == lo16(a) - lo16(b)
        borrow == IF lo < 0 THEN 1 ELSE 0
    IN  from16((hi16(a) - hi16(b) - borrow) % 65536, lo % 65536)
add32(a, b) ==
    LET lo == lo16(a) + lo16(b)
    IN  from16((hi16(a) + hi16(b) + lo \div 65536) % 65536, lo % 65536)

\* 0xFFFFFFFF, the "no such index" value of the u32 header fields
NoIndex == -1

\* -------------------------------------------------------- PalmDB writer

PalmDBHeaderSize == 78
\* "BOOK"
PalmDBType == <<66, 79, 79, 75>>
\* "MOBI"
PalmDBCreator == <<77, 79, 66, 73>>
\* the length of the name field
NameFieldSize == 32
\* the longest name kept in the name field
MaxNameLen == 31
\* timestampToPalmTime: the seconds between 1904 and 1970
unixToPalmOffset == 2082844800

\* a transliteration that keeps the low byte of the rune
transliterateRuneLowByte(r) == <<r % 256>>

\* transliterateRune: the Latin approximation of a Cyrillic letter, "?" for
\* every other rune
transliterateRune(r) ==
    CASE r = 1040 -> <<65>>
      [] r = 1041 -> <<66>>
      [] r = 1042 -> <<86>>
      [] r = 1043 -> <<71>>
      [] r = 1044 -> <<68>>
      [] r = 1045 -> <<69>>
      [] r = 1025 -> <<89, 111>>
      [] r = 1046 -> <<90, 104>>
      [] r = 1047 -> <<90>>
      [] r = 1048 -> <<73>>
      [] r = 1049 -> <<89>>
      [] r = 1050 -> <<75>>
      [] r = 1051 -> <<76>>
      [] r = 1052 -> <<77>>
      [] r = 1053 -> <<78>>
      [] r = 1054 -> <<79>>
      [] r = 1055 -> <<80>>
      [] r = 1056 -> <<82>>
      [] r = 1057 -> <<83>>
      [] r = 1058 -> <<84>>
      [] r = 1059 -> <<85>>
      [] r = 1060 -> <<70>>
      [] r = 1061 -> <<75, 104>>
      [] r = 1062 -> <<84, 115>>
      [] r = 1063 -> <<67, 104>>
      [] r = 1064 -> <<83, 104>>
      [] r = 1065 -> <<83, 104, 99, 104>>
      [] r = 1066 -> <<34>>
      [] r = 1067 -> <<39>>
      [] r = 1068 -> <<39>>
      [] r = 1069 -> <<69>>
      [] r = 1070 -> <<89, 117>>
      [] r = 1071 -> <<89, 97>>
      [] r = 1072 -> <<97>>
      [] r = 1073 -> <<98>>
      [] r = 1074 -> <<118>>
      [] r = 1075 -> <<103>>
      [] r = 1076 -> <<100>>
      [] r = 1077 -> <<101>>
      [] r = 1105 -> <<121, 111>>
      [] r = 1078 -> <<122, 104>>
      [] r = 1079 -> <<122>>
      [] r = 1080 -> <<105>>
      [] r = 1081 -> <<121>>
      [] r = 1082 -> <<107>>
      [] r = 1083 -> <<108>>
      [] r = 1084 -> <<109>>
      [] r = 1085 -> <<110>>
      [] r = 1086 -> <<111>>
      [] r = 1087 -> <<112>>
      [] r = 1088 -> <<114>>
      [] r = 1089 -> <<115>>
      [] r = 1090 -> <<116>>
      [] r = 1091 -> <<117>>
      [] r = 1092 -> <<102>>
      [] r = 1093 -> <<107, 104>>
      [] r = 1094 -> <<116, 115>>
      [] r = 1095 -> <<99, 104>>
      [] r = 1096 -> <<115, 104>>
      [] r = 1097 -> <<115, 104, 99, 104>>
      [] r = 1098 -> <<34>>
      [] r = 1099 -> <<39>>
      [] r = 1100 -> <<39>>
      [] r = 1101 -> <<101>>
      [] r = 1102 -> <<121, 117>>
      [] r = 1103 -> <<121, 97>>
      [] OTHER -> <<63>>

RECURSIVE runesFrom(_, _)
\* the runes `for _, r := range s` reads from byte i (0-based) of the string
\* s on: a well-formed UTF-8 sequence of one to four bytes is one rune (no
\* overlong form, no surrogate, nothing above U+10FFFF); any other byte is
\* read as U+FFFD (65533) and the loop moves on by one byte
runesFrom(s, i) ==
    IF i >= Len(s) THEN <<>>
    ELSE LET b0 == s[i + 1]
             cont(k, lo, hi) == i + k < Len(s) /\ s[i + k + 1] \in lo..hi
             tail(k) == s[i + k + 1] - 128
             lo2 == IF b0 = 224 THEN 160 ELSE IF b0 = 240 THEN 144 ELSE 128
             hi2 == IF b0 = 237 THEN 159 ELSE IF b0 = 244 THEN 143 ELSE 191
         IN  IF b0 < 128 THEN <<b0>> \o runesFrom(s, i + 1)
             ELSE IF b0 \in 194..223 /\ cont(1, 128, 191)
             THEN <<(b0 - 192) * 64 + tail(1)>> \o runesFrom(s, i + 2)
             ELSE IF b0 \in 224..239 /\ cont(1, lo2, hi2) /\ cont(2, 128, 191)
             THEN <<(b0 - 224) * 4096 + tail(1) * 64 + tail(2)>> \o runesFrom(s, i + 3)
             ELSE IF /\ b0 \in 240..244 /\ cont(1, lo2, hi2)
                     /\ cont(2, 128, 191) /\ cont(3, 128, 191)
             THEN <<(b0 - 240) * 262144 + tail(1) * 4096 + tail(2) * 64 + tail(3)>>
                      \o runesFrom(s, i + 4)
             ELSE <<65533>> \o runesFrom(s, i + 1)

\* the runes a range loop reads from the string s
runesOf(s) == runesFrom(s, 0)

\* the UTF-8 bytes of one rune, and the string of a sequence of runes
encodeRune(r) ==
    IF r < 128 THEN <<r>>
    ELSE IF r < 2048 THEN <<192 + (r \div 64), 128 + (r % 64)>>
    ELSE IF r < 65536
    THEN <<224 + (r \div 4096), 128 + ((r \div 64) % 64), 128 + (r % 64)>>
    ELSE <<240 + (r \div 262144), 128 + ((r \div 4096) % 64),
           128 + ((r \div 64) % 64), 128 + (r % 64)>>

RECURSIVE stringOf(_)
stringOf(runes) ==
    IF runes = <<>> THEN <<>> ELSE encodeRune(Head(runes)) \o stringOf(Tail(runes))

RECURSIVE translitFrom(_)
\* transliterateName's loop over the runes of name
translitFrom(runes) ==
    IF runes = <<>> THEN <<>>
    ELSE LET r == Head(runes)
         IN  (IF r < 128 THEN (IF r # 0 THEN <<r>> ELSE <<>>)
              ELSE transliterateRune(r)) \o translitFrom(Tail(runes))

\* transliterateName: name is a string, held as its bytes; the loop reads it
\* rune by rune
transliterateName(name) ==
    LET resultStr == translitFrom(runesOf(name))
    IN  IF Len(resultStr) > MaxNameLen THEN Slice(resultStr, 0, MaxNameLen)
        ELSE resultStr

timestampToPalmTime(unix) == U32(unix + unixToPalmOffset)

\* NewPalmDBHeader; seed is the value drawn by generateRandomUniqueIDSeed.
\* copy() fills the zeroed 32-byte array with the name, then the terminator
\* is stored at 31 or at the end of the name.
NewPalmDBHeader(name, numRecords, seed) ==
    LET asciiName == transliterateName(name)
        copied == [i \in 1..NameFieldSize |->
                     IF i <= Len(asciiName) THEN asciiName[i] ELSE 0]
        nul == IF Len(asciiName) > MaxNameLen THEN MaxNameLen ELSE Len(asciiName)
    IN  [Name |-> [copied EXCEPT ![nul + 1] = 0],
         Attributes |-> 0,
         Version |-> 0,
         CreationDate |-> timestampToPalmTime(0),
         ModificationDate |-> timestampToPalmTime(0),
         LastBackupDate |-> 0,
         ModificationNumber |-> 0,
         AppInfoOffset |-> 0,
         SortInfoOffset |-> 0,
         Type |-> PalmDBType,
         Creator |-> PalmDBCreator,
         UniqueIDSeed |-> seed,
         NextRecordListID |-> 0,
         NumRecords |-> U16(numRecords)]

\* PalmDBHeader.Write
PalmDBHeaderWrite(h) ==
    h.Name \o BE16(h.Attributes) \o BE16(h.Version) \o BE32(h.CreationDate)
        \o BE32(h.ModificationDate) \o BE32(h.LastBackupDate)
        \o BE32(h.ModificationNumber) \o BE32(h.AppInfoOffset)
        \o BE32(h.SortInfoOffset) \o h.Type \o h.Creator
        \o BE32(h.UniqueIDSeed) \o BE32(h.NextRecordListID)
        \o BE16(h.NumRecords)

\* one entry of the record index: offset, attributes, the low three bytes of
\* the unique id
indexEntryBytes(e) ==
    BE32(e.Offset) \o <<e.Attributes>> \o Slice(BE32(e.UniqueID), 1, 4)

RECURSIVE WriteRecordIndex(_)
WriteRecordIndex(entries) ==
    IF entries = <<>> THEN <<>>
    ELSE indexEntryBytes(Head(entries)) \o WriteRecordIndex(Tail(entries))

NewPalmDBWriter(name) ==
    [name |-> name, records |-> <<>>, recordEntries |-> <<>>]

\* PalmDBWriter.AddRecord on the writer p
AddRecord(p, data, attributes, uniqueID) ==
    [p EXCEPT !.records = Append(@, data),
              !.recordEntries = Append(@, [Offset |-> 0,
                                           Attributes |-> attributes,
                                           UniqueID |-> uniqueID])]

\* PalmDBWriter.SetRecord
SetRecord(p, index, data) ==
    IF index >= 0 /\ index < Len(p.records)
    THEN [p EXCEPT !.records[index + 1] = data]
    ELSE p

\* PalmDBWriter.SetRecords
SetRecords(p, records, entries) ==
    [p EXCEPT !.records = records, !.recordEntries = entries]

\* a faulty offset: the running offset advanced past record i before it is
\* stored in entry i
entryOffsetAfter(p, i) ==
    U32(PalmDBHeaderSize + Len(p.recordEntries) * 8
            + SumLen(SubSeq(p.records, 1, i + 1)))

\* Write's offset of entry i (0-based): dataOffset starts after the header and
\* the index and has advanced over records 0..i-1
entryOffset(p, i) ==
    U32(PalmDBHeaderSize + Len(p.recordEntries) * 8
            + SumLen(SubSeq(p.records, 1, i)))

\* Write's update of the record entries
withOffsets(p) ==
    [p EXCEPT !.recordEntries =
        [i \in 1..Len(p.recordEntries) |->
            [p.recordEntries[i] EXCEPT !.Offset = entryOffset(p, i - 1)]]]

\* the bytes PalmDBWriter.Write sends to the output
PalmDBWrite(p, seed) ==
    PalmDBHeaderWrite(NewPalmDBHeader(p.name, Len(p.records), seed))
        \o WriteRecordIndex(withOffsets(p).recordEntries)
        \o Concat(p.records)

\* ---------------------------------------------------------- MOBI header

MOBIHeaderSize == 232
NoCompression == 1
PalmDOCCompression == 2
UTF8Encoding == 65001
\* "MOBI"
MOBIMarker == <<77, 79, 66, 73>>
\* NewMOBIHeader: MOBIType (2: book)
MOBITypeBook == 2
\* NewMOBIHeader: FormatVersion and MinVersion
MOBIVersion == 6
\* NewMOBIHeader: EXTHFlags 0x50
EXTHFlagsDefault == 80
\* the uint32 fields Unknown14 .. Unknown127 that Write emits last
UnknownTail == 114

\* NewMOBIHeader; id is the value drawn by generateRandomID.  The fields the
\* constructor leaves out hold Go's zero value.
NewMOBIHeader(textSize, recordCount, id) ==
    [Compression |-> PalmDOCCompression,
     Unused |-> 0,
     UncompressedTextSize |-> U32(textSize),
     RecordCount |-> U16(recordCount),
     RecordSize |-> RecordSize,
     EncryptionType |-> 0,
     MOBIMarker |-> MOBIMarker,
     HeaderLength |-> MOBIHeaderSize,
     MOBIType |-> MOBITypeBook,
     TextEncoding |-> UTF8Encoding,
     ID |-> id,
     FormatVersion |-> MOBIVersion,
     FirstNonBookIndex |-> NoIndex,
     FullNameOffset |-> NoIndex,
     FullNameLength |-> 0,
     Locale |-> 0,
     InputLanguage |-> 0,
     OutputLanguage |-> 0,
     MinVersion |-> MOBIVersion,
     FirstImageIndex |-> NoIndex,
     EXTHFlags |-> EXTHFlagsDefault,
     DRMFlags |-> 0,
     FirstContentRec |-> 1,
     LastContentRec |-> U16(recordCount),
     FCISIndex |-> 0,
     FLISIndex |-> 0,
     CoverIndex |-> NoIndex,
     ThumbnailIndex |-> NoIndex]

\* MOBIHeader.SetFullName
SetFullName(h, name) == [h EXCEPT !.FullNameLength = U32(Len(name))]

\* MOBIHeader.SetEXTHFlags
SetEXTHFlags(h, flags) == [h EXCEPT !.EXTHFlags = flags]

\* MOBIHeader.SetCoverIndex
SetCoverIndex(h, index) == [h EXCEPT !.CoverIndex = index]

\* MOBIHeader.SetContentRecords
SetContentRecords(h, first, last) ==
    [h EXCEPT !.FirstContentRec = first, !.LastContentRec = last]

\* MOBIHeader.Write: the PalmDOC header with RecordSize as a uint32
palmDOCHeaderBytes(h) ==
    BE16(h.Compression) \o BE16(h.Unused) \o BE32(h.UncompressedTextSize)
        \o BE16(h.RecordCount) \o BE32(h.RecordSize) \o BE16(h.EncryptionType)

\* MOBIHeader.Write: the slice `fields` of 31 uint32 values, in order; the
\* index, Huffman and DRM fields other than DRMFlags are never set and are 0
mobiFieldBytes(h) ==
    BE32(h.HeaderLength) \o BE32(h.MOBIType) \o BE32(h.TextEncoding)
        \o BE32(h.ID) \o BE32(h.FormatVersion)
        \o Zeros(4 * 7)
        \o BE32(h.FirstNonBookIndex) \o BE32(h.FullNameOffset)
        \o BE32(h.FullNameLength) \o BE32(h.Locale) \o BE32(h.InputLanguage)
        \o BE32(h.OutputLanguage) \o BE32(h.MinVersion)
        \o BE32(h.FirstImageIndex)
        \o Zeros(4 * 4)
        \o BE32(h.EXTHFlags)
        \o Zeros(4 * 4)
        \o BE32(h.DRMFlags)
        \o Zeros(4)

\* MOBIHeader.Write: the slice `remaining`: Unknown10, FCISIndex, FCISCount,
\* FLISIndex, FLISCount, Unknown11..13, CoverIndex, ThumbnailIndex and
\* Unknown14..127, each a uint32
remainingBytes(h) ==
    Zeros(4) \o BE32(h.FCISIndex) \o Zeros(4) \o BE32(h.FLISIndex) \o Zeros(4)
        \o Zeros(4 * 3)
        \o BE32(h.CoverIndex) \o BE32(h.ThumbnailIndex)
        \o Zeros(4 * UnknownTail)

\* the bytes MOBIHeader.Write sends to the writer
MOBIHeaderWrite(h) ==
    palmDOCHeaderBytes(h) \o h.MOBIMarker \o mobiFieldBytes(h)
        \o BE16(h.FirstContentRec) \o BE16(h.LastContentRec)
        \o remainingBytes(h)

\* ============================================================ varint codec

\* A uint32 is kept as its two 16-bit halves, so that every value of
\* [0, 2^32) and the truncation of a left shift can be written.
Half == 65536

V32(hi, lo) == [hi |-> hi, lo |-> lo]

\* value & 0x7F
low7(v) == v.lo % 128

\* value >> 7
shr7(v) == V32(v.hi \div 128, (v.lo \div 128) + (v.hi % 128) * 512)

\* (value << 7) | uint32(b) for b < 0x80, in 32 bits
shl7or(v, b) == V32((v.hi * 128 + (v.lo \div 512)) % Half, (v.lo % 512) * 128 + b)

V32Zero == V32(0, 0)

RECURSIVE chunksOf(_)
\* EncodeForward / EncodeBackward: the 7-bit chunks of value, LSB first
chunksOf(value) ==
    IF value = V32Zero THEN <<>>
    ELSE <<low7(value)>> \o chunksOf(shr7(value))

\* the reversal loops of the encoders and of DecodeBackward
reverse(bs) == [i \in 1..Len(bs) |-> bs[Len(bs) + 1 - i]]

\* chunks[i] |= 0x80
setMSB(chunks, i) ==
    [chunks EXCEPT ![i] = IF @ >= 128 THEN @ ELSE @ + 128]

\* a faulty forward encoding: the terminator bit on the most significant chunk
EncodeForwardMSBFirst(value) ==
    IF value = V32Zero THEN <<128>>
    ELSE reverse(setMSB(chunksOf(value), Len(chunksOf(value))))

\* EncodeForward
EncodeForward(value) ==
    IF value = V32Zero THEN <<128>>
    ELSE reverse(setMSB(chunksOf(value), 1))

\* EncodeBackward
EncodeBackward(value) ==
    IF value = V32Zero THEN <<128>>
    ELSE reverse(setMSB(chunksOf(value), Len(chunksOf(value))))

\* the decoders' read loop: b & 0x7F of every byte up to and including the
\* first byte with the bit 0x80, or of every byte when there is none
readToMSB(data) ==
    LET stops == {i \in 1..Len(data) : data[i] >= 128}
        n == IF stops = {} THEN Len(data)
             ELSE CHOOSE i \in stops : \A j \in stops : i <= j
    IN  [i \in 1..n |-> data[i] % 128]

RECURSIVE foldValue(_, _)
\* the decoders' last loop: value = (value << 7) | b over bytes, from value
foldValue(value, bytes) ==
    IF bytes = <<>> THEN value
    ELSE foldValue(shl7or(value, Head(bytes)), Tail(bytes))

\* the three results of a decoder: value, bytes consumed, error
Decoded(value, n, err) == [value |-> value, n |-> n, err |-> err]

\* DecodeForward
DecodeForward(data) ==
    IF Len(data) = 0 THEN Decoded(V32Zero, 0, "ErrUnderflow")
    ELSE LET bytes == readToMSB(data)
         IN  IF Len(bytes) = 0 THEN Decoded(V32Zero, 0, "no data")
             ELSE Decoded(foldValue(V32Zero, bytes), Len(bytes), "nil")

\* DecodeBackward
DecodeBackward(data) ==
    IF Len(data) = 0 THEN Decoded(V32Zero, 0, "ErrUnderflow")
    ELSE LET bytes == readToMSB(reverse(data))
         IN  IF Len(bytes) = 0 THEN Decoded(V32Zero, 0, "no data")
             ELSE Decoded(foldValue(V32Zero, reverse(bytes)), Len(bytes), "nil")

\* ============================================================== TOC index

INDXHeaderSize == 192

\* the length of INDXHeader.Unknown2
Unknown2Size == 84

\* the number of elements of writeHeader's slice `fields`
HeaderFieldCount == 16

\* uint32(x) of an int, as the two halves the varint encoders take
ToV32(x) == V32((x \div Half) % Half, x % Half)

\* NewINDX
NewINDX(indexType) ==
    [Header |-> [TagxOffset |-> 0, ID |-> 0, HeaderLength |-> INDXHeaderSize,
                 Unknown1 |-> 0, IndexType |-> indexType, IndexOffset |-> 0,
                 RecordCount |-> 0, RecordSize |-> 0, Encoding |-> UTF8Encoding,
                 TotalRecordCount |-> 0, OrtographicCount |-> 0,
                 IndexedCount |-> 0],
     TAGX |-> <<>>,
     IDXT |-> <<>>,
     CNCX |-> <<>>]

\* TAGX.AddTag on the INDX i
AddTag(i, tagID, count, control) ==
    [i EXCEPT !.TAGX = Append(@, [TagID |-> tagID, Count |-> count,
                                   Control |-> control])]

\* INDX.AddEntry
INDXAddEntry(i, offset, recordIndex, tagValues) ==
    [i EXCEPT !.IDXT = Append(@, [Offset |-> offset, Size |-> 0,
                                   TagValues |-> tagValues,
                                   RecordIndex |-> recordIndex]),
              !.Header.RecordCount = U32(@ + 1)]

\* INDX.AddString: the INDX and the index of the string
AddString(i, str) == [indx |-> [i EXCEPT !.CNCX = Append(@, str)],
                      index |-> Len(i.CNCX)]

RECURSIVE tagxEntryBytes(_)
\* TAGX.Encode's loop: the control byte and the low three bytes of the tag id
tagxEntryBytes(entries) ==
    IF entries = <<>> THEN <<>>
    ELSE <<Head(entries).Control>> \o Slice(BE32(Head(entries).TagID), 1, 4)
             \o tagxEntryBytes(Tail(entries))

\* TAGX.Encode
TAGXEncode(entries) == BE32(Len(entries)) \o tagxEntryBytes(entries)

RECURSIVE encodeCNCX(_)
\* INDX.encodeCNCX on the string table
encodeCNCX(strs) ==
    IF strs = <<>> THEN <<>>
    ELSE EncodeForward(ToV32(Len(Head(strs)))) \o Head(strs)
             \o encodeCNCX(Tail(strs))

RECURSIVE encodeValues(_)
\* encodeIDXTEntry's inner loop: each value as a forward varint
encodeValues(values) ==
    IF values = <<>> THEN <<>>
    ELSE EncodeForward(ToV32(Head(values))) \o encodeValues(Tail(values))

RECURSIVE encodeTags(_, _)
\* encodeIDXTEntry's loop over the TAGX entries
encodeTags(tags, tagValues) ==
    IF tags = <<>> THEN <<>>
    ELSE (IF Head(tags).TagID \in DOMAIN tagValues
          THEN encodeValues(tagValues[Head(tags).TagID]) ELSE <<>>)
             \o encodeTags(Tail(tags), tagValues)

\* INDX.encodeIDXTEntry
encodeIDXTEntry(i, entry) ==
    EncodeForward(ToV32(entry.Offset)) \o encodeTags(i.TAGX, entry.TagValues)

\* INDX.writeHeader: TagxOffset, the sixteen fields (Unknown2 takes 84 bytes)
\* and the padding of INDXHeaderSize - 4 - len(fields)*4 bytes
writeHeader(h) ==
    BE32(h.TagxOffset)
        \o BE32(h.ID) \o BE32(h.HeaderLength) \o BE32(h.Unknown1)
        \o BE32(h.IndexType) \o BE32(h.IndexOffset) \o BE32(h.RecordCount)
        \o BE32(h.RecordSize) \o BE32(h.Encoding)
        \o Zeros(Unknown2Size)
        \o BE32(h.TotalRecordCount) \o BE32(h.OrtographicCount)
        \o BE32(h.IndexedCount)
        \o Zeros(16)
        \o Zeros(INDXHeaderSize - 4 - HeaderFieldCount * 4)

\* the header as INDX.Encode updates it before writing
encodedHeader(i) ==
    [i.Header EXCEPT !.TagxOffset = INDXHeaderSize,
                     !.IndexOffset = U32(INDXHeaderSize + Len(TAGXEncode(i.TAGX)))]

\* INDX.Encode: the bytes returned
INDXEncode(i) ==
    writeHeader(encodedHeader(i))
        \o TAGXEncode(i.TAGX)
        \o encodeCNCX(i.CNCX)
        \o Concat([k \in 1..Len(i.IDXT) |-> encodeIDXTEntry(i, i.IDXT[k])])

\* NewTOCIndexBuilder
NewTOCIndexBuilder ==
    [indx |-> NewINDX(0), entries |-> <<>>, textRecords |-> <<>>,
     recordSizes |-> <<>>, totalLength |-> 0]

\* TOCIndexBuilder.SetTextRecords
SetTextRecords(b, records) ==
    [b EXCEPT !.textRecords = records,
              !.recordSizes = [k \in 1..Len(records) |-> Len(records[k])],
              !.totalLength = SumLen(records)]

\* a faulty parent search: the earliest entry with a lower level
findParentEarliest(entries, level) ==
    LET lower == {i \in 0..(Len(entries) - 1) : ult32(entries[i + 1].Level, level)}
    IN  IF lower = {} THEN -1
        ELSE CHOOSE i \in lower : \A j \in lower : i <= j

\* AddEntry's loop: the last entry with a lower level, -1 if there is none.
\* A Level is int(level) of a uint32 level, a value of 0..2^32-1; it is held
\* here as the uint32 and compared as such
findParent(entries, level) ==
    LET lower == {i \in 0..(Len(entries) - 1) : ult32(entries[i + 1].Level, level)}
    IN  IF lower = {} THEN -1
        ELSE CHOOSE i \in lower : \A j \in lower : i >= j

\* TOCIndexBuilder.AddEntry
TOCAddEntry(b, label, href, level, offset) ==
    [b EXCEPT !.entries = Append(@, [Label |-> label, Href |-> href,
                                      Level |-> level,
                                      ParentIndex |-> findParent(b.entries, level),
                                      Offset |-> offset, Length |-> 0])]

RECURSIVE recordOf(_, _, _, _)
\* CalculateRecordOffset's loop from record i (0-based) with the running total
recordOf(recordSizes, offset, i, running) ==
    IF i >= Len(recordSizes)
    THEN [recordIndex |-> Len(recordSizes) - 1, recordOffset |-> sub32(offset, running)]
    ELSE IF ult32(offset, add32(running, recordSizes[i + 1]))
    THEN [recordIndex |-> i, recordOffset |-> sub32(offset, running)]
    ELSE recordOf(recordSizes, offset, i + 1, add32(running, recordSizes[i + 1]))

\* TOCIndexBuilder.CalculateRecordOffset: the record index and the offset
\* within the record; offset, running and recordEnd are uint32 and their sums
\* and differences wrap at 2^32
CalculateRecordOffset(b, offset) ==
    IF Len(b.recordSizes) = 0 THEN [recordIndex |-> 0, recordOffset |-> 0]
    ELSE recordOf(b.recordSizes, offset, 0, 0)

RECURSIVE buildEntries(_, _, _)
\* Build's loop over the entries from the k-th on, on the INDX i
buildEntries(b, i, k) ==
    IF k > Len(b.entries) THEN i
    ELSE LET entry == b.entries[k]
             added == AddString(i, entry.Label)
             tagValues == (1 :> <<U32(added.index)>>)
                          @@ (2 :> <<entry.Offset>>)
                          @@ (3 :> <<U32(entry.Level)>>)
                          @@ (4 :> <<U32(entry.ParentIndex)>>)
         IN  buildEntries(b,
                 INDXAddEntry(added.indx, entry.Offset,
                              CalculateRecordOffset(b, entry.Offset).recordIndex, tagValues),
                 k + 1)

\* TOCIndexBuilder.Build: the INDX
Build(b) ==
    buildEntries(b,
        AddTag(AddTag(AddTag(AddTag(b.indx, 1, 1, 1), 2, 1, 1), 3, 1, 1), 4, 1, 1),
        1)

\* ---- offsets of the entries from the HTML

\* "id=" and "name="
IdAttr == <<105, 100, 61>>
NameAttr == <<110, 97, 109, 101, 61>>

\* `[^>]+` after a '<' at p can end just before q: one byte or more, none '>'
tagRunTo(html, p, q) ==
    /\ q >= p + 2
    /\ q <= Len(html)
    /\ \A t \in (p + 1)..(q - 1) : At(html, t) # 62

\* `<[^>]+ATTR['"]TARGET['"]` (the target quoted by QuoteMeta) matches from p
literalMatchAt(html, p, attr, target) ==
    /\ At(html, p) = 60
    /\ \E q \in (p + 2)..(Len(html) - 1) :
        /\ hasPrefixAt(html, q, attr)
        /\ tagRunTo(html, p, q)
        /\ q + Len(attr) < Len(html)
        /\ isQuote(At(html, q + Len(attr)))
        /\ hasPrefixAt(html, q + Len(attr) + 1, target)
        /\ q + Len(attr) + 1 + Len(target) < Len(html)
        /\ isQuote(At(html, q + Len(attr) + 1 + Len(target)))

\* re.FindStringIndex(html)[0] of that pattern, -1 for no match
findLiteral(html, attr, target) ==
    LET hits == {p \in 0..(Len(html) - 1) : literalMatchAt(html, p, attr, target)}
    IN  IF hits = {} THEN -1 ELSE CHOOSE p \in hits : \A r \in hits : p <= r

\* TOCIndexBuilder.FindOffsetForHref
FindOffsetForHref(html, href) ==
    LET targetID == IF hasPrefixAt(href, 0, <<Hash>>) THEN Tail(href) ELSE href
        byID == findLiteral(html, IdAttr, targetID)
        byName == findLiteral(html, NameAttr, targetID)
    IN  IF byID >= 0 THEN U32(byID)
        ELSE IF byName >= 0 THEN U32(byName)
        ELSE 0

\* `<[^>]+id=['"]([^'"]+)['"]` from p with "id=" at q: the position of the
\* closing quote, -1 when it does not match that way
anchorClose(html, p, q) ==
    IF /\ At(html, p) = 60
       /\ hasPrefixAt(html, q, IdAttr)
       /\ tagRunTo(html, p, q)
       /\ q + 3 < Len(html)
       /\ isQuote(At(html, q + 3))
    THEN LET quotes == {r \in (q + 4)..(Len(html) - 1) : isQuote(At(html, r))}
         IN  IF quotes = {} THEN -1
             ELSE LET r == CHOOSE a \in quotes : \A c \in quotes : a <= c
                  IN  IF r >= q + 5 THEN r ELSE -1
    ELSE -1

\* the match from p, as match[0], match[2], match[3] of the submatch indexes:
\* `[^>]+` is greedy, so the last "id=" of the tag that matches is taken
anchorAt(html, p) ==
    LET qs == IF At(html, p) = 60
              THEN {q \in (p + 2)..(Len(html) - 1) : anchorClose(html, p, q) >= 0}
              ELSE {}
    IN  IF qs = {} THEN <<>>
        ELSE LET q == CHOOSE a \in qs : \A c \in qs : a >= c
             IN  <<[start |-> p, idStart |-> q + 4,
                    idEnd |-> anchorClose(html, p, q)]>>

RECURSIVE anchorMatches(_, _)
\* re.FindAllStringSubmatchIndex(html, -1): the matches from position from on
anchorMatches(html, from) ==
    LET ps == {p \in from..(Len(html) - 1) : anchorAt(html, p) # <<>>}
    IN  IF ps = {} THEN <<>>
        ELSE LET p == CHOOSE a \in ps : \A c \in ps : a <= c
                 m == anchorAt(html, p)[1]
             IN  <<m>> \o anchorMatches(html, m.idEnd + 1)

RECURSIVE applyAnchors(_, _, _)
\* CalculateOffsetsFromHTML's loop over the matches
applyAnchors(b, html, matches) ==
    IF matches = <<>> THEN b
    ELSE LET m == Head(matches)
             id == Slice(html, m.idStart, m.idEnd)
             href == <<Hash>> \o id
             found == {i \in 1..Len(b.entries) : b.entries[i].Href = href}
             first == CHOOSE i \in found : \A j \in found : i <= j
         IN  applyAnchors(
                 IF found # {}
                 THEN [b EXCEPT !.entries[first].Offset = U32(m.start)]
                 ELSE TOCAddEntry(b, id, href, 1, U32(m.start)),
                 html, Tail(matches))

\* TOCIndexBuilder.CalculateOffsetsFromHTML
CalculateOffsetsFromHTML(b, html) == applyAnchors(b, html, anchorMatches(html, 0))

RECURSIVE insertByOffset(_, _)
\* the inner loop of the insertion sort: e moves left past every entry of a
\* greater offset (uint32)
insertByOffset(sorted, e) ==
    IF sorted = <<>> THEN <<e>>
    ELSE LET last == sorted[Len(sorted)]
         IN  IF ult32(e.Offset, last.Offset)
             THEN Append(insertByOffset(SubSeq(sorted, 1, Len(sorted) - 1), e), last)
             ELSE Append(sorted, e)

RECURSIVE SortTOC(_)
\* SortTOC: sort.Slice by Offset, an insertion sort on a slice this short; the
\* parent indexes stay as they were
SortTOC(entries) ==
    IF entries = <<>> THEN <<>>
    ELSE insertByOffset(SortTOC(SubSeq(entries, 1, Len(entries) - 1)),
                        entries[Len(entries)])

\* ------------------------------------------------------------ OEB book

\* "image"
ImagePrefix == <<105, 109, 97, 103, 101>>

\* the test of HasImages, addImagesFiltered, resolveImageSources and
\* WriteJointFile on a resource's media type
isImage(res) ==
    Len(res.MediaType) >= 6 /\ Slice(res.MediaType, 0, 5) = ImagePrefix

\* "root", the ID of the entry GenerateTOCIndex leaves out
RootID == <<114, 111, 111, 116>>

\* the zero TOCEntry, the TOC of NewOEBBook
ZeroTOCEntry == [ID |-> <<>>, Label |-> <<>>, Href |-> <<>>, Level |-> 0, Children |-> <<>>]

\* TOCEntry.AddChild: the entry with the child appended
AddChild(e, id, label, href) ==
    [e EXCEPT !.Children = Append(@, [ID |-> id, Label |-> label, Href |-> href,
                                       Level |-> e.Level + 1, Children |-> <<>>])]

RECURSIVE Flatten(_)
RECURSIVE flattenAll(_)
\* TOCEntry.Flatten: the entry, then the entries under each child, depth first
Flatten(e) == <<e>> \o flattenAll(e.Children)

\* Flatten's loop over the children
flattenAll(children) ==
    IF children = <<>> THEN <<>>
    ELSE Flatten(Head(children)) \o flattenAll(Tail(children))

\* OEBBook.HasImages
HasImages(book) == \E id \in DOMAIN book.Manifest : isImage(book.Manifest[id])

\* a < b in the byte order of Go strings
lessStr(a, b) ==
    \E k \in 0..Len(a) :
        /\ k <= Len(b)
        /\ Slice(a, 0, k) = Slice(b, 0, k)
        /\ IF k = Len(a) THEN k < Len(b) ELSE k < Len(b) /\ a[k + 1] < b[k + 1]

\* a faulty order: the ids in descending byte order
RECURSIVE sortStringsDescending(_)

sortStringsDescending(ids) ==
    IF ids = {} THEN <<>>
    ELSE LET m == CHOOSE a \in ids : \A b \in ids \ {a} : lessStr(b, a)
         IN  <<m>> \o sortStringsDescending(ids \ {m})

RECURSIVE sortStrings(_)
\* sort.Strings on a set of distinct ids
sortStrings(ids) ==
    IF ids = {} THEN <<>>
    ELSE LET m == CHOOSE a \in ids : \A b \in ids \ {a} : lessStr(a, b)
         IN  <<m>> \o sortStrings(ids \ {m})

\* OEBBook.GetManifestIDs
GetManifestIDs(book) == sortStrings(DOMAIN book.Manifest)

RECURSIVE imageIDs(_, _)
\* the ids of the sorted list ids whose resource is an image: the joint
\* writers' loop, which skips no id
imageIDs(book, ids) ==
    IF ids = <<>> THEN <<>>
    ELSE (IF isImage(book.Manifest[Head(ids)]) THEN <<Head(ids)>> ELSE <<>>)
         \o imageIDs(book, Tail(ids))

RECURSIVE selectIDs(_, _, _)
\* the ids of the sorted list ids that pass the loop's two tests: not skipID,
\* and an image resource
selectIDs(book, ids, skipID) ==
    IF ids = <<>> THEN <<>>
    ELSE (IF Head(ids) = skipID \/ ~isImage(book.Manifest[Head(ids)])
          THEN <<>> ELSE <<Head(ids)>>) \o selectIDs(book, Tail(ids), skipID)

\* ---------------------------------------------------------- MOBI 6 writer

\* "src="
SrcAttr == <<115, 114, 99, 61>>
\* "recindex="
RecIndexAttr == <<114, 101, 99, 105, 110, 100, 101, 120, 61>>
\* "cover.jpg"
CoverName == <<99, 111, 118, 101, 114, 46, 106, 112, 103>>
\* the width of %05d
IndexWidth == 5

\* the images of the manifest that get an entry of imageMap after the cover,
\* in the order of the loop
mappedIDs(book) == selectIDs(book, GetManifestIDs(book), book.Metadata.CoverID)

\* resolveImageSources: imageMap, a function from ids to offsets.  The cover
\* entry is stored first, so an entry of the loop with the same key replaces it.
imageMap(book, options) ==
    LET coverID == book.Metadata.CoverID
        hasCover == options.CoverImage.present
        coverKey == IF coverID # <<>> THEN coverID ELSE CoverName
        base == IF hasCover THEN 2 ELSE 0
        ids == mappedIDs(book)
        keys == {ids[k] : k \in 1..Len(ids)} \cup (IF hasCover THEN {coverKey} ELSE {})
    IN  [id \in keys |->
            IF \E k \in 1..Len(ids) : ids[k] = id
            THEN base + (CHOOSE k \in 1..Len(ids) : ids[k] = id) - 1
            ELSE 0]

RECURSIVE decimal(_)
\* the decimal digits of n
decimal(n) == IF n < 10 THEN <<48 + n>> ELSE decimal(n \div 10) \o <<48 + (n % 10)>>

\* fmt's %05d
pad5(n) ==
    LET d == decimal(n)
    IN  IF Len(d) >= IndexWidth THEN d
        ELSE [i \in 1..(IndexWidth - Len(d)) |-> 48] \o d

\* the position of the first quote at or after p (-1: none)
firstQuote(c, p) ==
    IF \E q \in p..(Len(c) - 1) : isQuote(At(c, q))
    THEN CHOOSE q \in p..(Len(c) - 1) :
            /\ isQuote(At(c, q))
            /\ \A k \in p..(q - 1) : ~isQuote(At(c, k))
    ELSE -1

\* src=["']([^"']+)["'] matched at p: the end of the match (-1: no match).  The
\* class excludes both quotes, so the match ends at the first quote after the
\* opening one, which must leave at least one byte in between.
matchEnd(c, p) ==
    IF /\ p + 6 < Len(c)
       /\ Slice(c, p, p + 4) = SrcAttr
       /\ isQuote(At(c, p + 4))
    THEN LET q == firstQuote(c, p + 5)
         IN  IF q >= p + 6 THEN q + 1 ELSE -1
    ELSE -1

\* the start of the leftmost match at or after from (-1: none)
nextMatch(c, from) ==
    LET starts == {p \in from..(Len(c) - 7) :
                     At(c, p) = 115 /\ matchEnd(c, p) > 0}
    IN  IF starts = {} THEN -1
        ELSE CHOOSE p \in starts : \A r \in starts : p <= r

\* strings.TrimPrefix(url, "#")
trimHash(url) == IF url # <<>> /\ url[1] = Hash THEN Tail(url) ELSE url

\* the replacement function of resolveImageSources on one match
replaceMatch(match, m) ==
    LET quote == At(match, 4)
        url == trimHash(Slice(match, 5, Len(match) - 1))
    IN  IF url \in DOMAIN m
        THEN RecIndexAttr \o <<quote>> \o pad5(U32(m[url] + 1)) \o <<quote>>
        ELSE match

RECURSIVE replaceAllFrom(_, _, _)
\* ReplaceAllStringFunc from offset from on: the matches are taken left to
\* right and do not overlap
replaceAllFrom(c, from, m) ==
    LET p == nextMatch(c, from)
    IN  IF p < 0 THEN Slice(c, from, Len(c))
        ELSE Slice(c, from, p) \o replaceMatch(Slice(c, p, matchEnd(c, p)), m)
                 \o replaceAllFrom(c, matchEnd(c, p), m)

\* Writer.resolveImageSources (baseIndex is not used by the code)
resolveImageSources(book, options, content, baseIndex) ==
    replaceAllFrom(content, 0, imageMap(book, options))

\* ------------------------------------------------------------ EXTH block

EXTHAuthor == 100
EXTHPublisher == 101
EXTHDescription == 103
EXTHISBN == 104
EXTHPublishedDate == 106
EXTHRights == 109
EXTHLanguage == 524
EXTHCreatorSoftware == 200
EXTHCoverOffset == 201
EXTHThumbOffset == 202
EXTHHasFakeCover == 203
EXTHK8CoverImage == 129
EXTHTitle == 503
\* "EXTH"
EXTHIdentifier == <<69, 88, 84, 72>>
\* "fb2c - FB2 to MOBI Converter"
CreatorSoftware == <<102, 98, 50, 99, 32, 45, 32, 70, 66, 50, 32, 116, 111, 32, 77, 79, 66, 73, 32, 67, 111, 110, 118, 101, 114, 116, 101, 114>>
\* "kindle:embed:0001"
K8CoverImageID == <<107, 105, 110, 100, 108, 101, 58, 101, 109, 98, 101, 100, 58, 48, 48, 48, 49>>
\* the bytes of the EXTH header
EXTHHeaderLen == 12
\* the type and length words of an EXTH record
EXTHRecordOverhead == 8

\* EXTHWriter.addRecord on the record list recs
addRecord(recs, recordType, data) ==
    Append(recs, [RecordType |-> recordType, Data |-> data])

\* EXTHWriter.AddFromMetadata
AddFromMetadata(recs, title, author, publisher, isbn, year, description, copyright, language) ==
    LET r1 == addRecord(recs, EXTHTitle, title)
        r2 == addRecord(r1, EXTHAuthor, author)
        r3 == addRecord(r2, EXTHPublisher, publisher)
        r4 == addRecord(r3, EXTHDescription, description)
        r5 == addRecord(r4, EXTHISBN, isbn)
        r6 == addRecord(r5, EXTHPublishedDate, year)
        r7 == addRecord(r6, EXTHRights, copyright)
        r8 == IF language # <<>> THEN addRecord(r7, EXTHLanguage, language) ELSE r7
    IN  addRecord(r8, EXTHCreatorSoftware, CreatorSoftware)

RECURSIVE exthDataLen(_)
\* the sum of 8 + len(record.Data) over the records
exthDataLen(recs) ==
    IF recs = <<>> THEN 0
    ELSE EXTHRecordOverhead + Len(Head(recs).Data) + exthDataLen(Tail(recs))

\* EXTHWriter.GetTotalLength
GetTotalLength(recs) ==
    IF recs = <<>> THEN 0 ELSE EXTHHeaderLen + exthDataLen(recs)

RECURSIVE exthRecordBytes(_)
\* the loop of EXTHWriter.Write over the records
exthRecordBytes(recs) ==
    IF recs = <<>> THEN <<>>
    ELSE LET r == Head(recs)
         IN  BE32(r.RecordType) \o BE32(U32(EXTHRecordOverhead + Len(r.Data)))
                 \o r.Data \o exthRecordBytes(Tail(recs))

\* the bytes EXTHWriter.Write sends to the output
EXTHWrite(recs) ==
    IF recs = <<>> THEN <<>>
    ELSE EXTHIdentifier \o BE32(U32(GetTotalLength(recs))) \o BE32(U32(Len(recs)))
             \o exthRecordBytes(recs)

RECURSIVE joinStrings(_, _)
\* joinStrings(strs, sep)
joinStrings(strs, sep) ==
    IF strs = <<>> THEN <<>>
    ELSE IF Len(strs) = 1 THEN strs[1]
    ELSE strs[1] \o sep \o joinStrings(Tail(strs), sep)

\* ", "
CommaSpace == <<44, 32>>

\* the EXTH records of a book's metadata, as both writers build them
metadataEXTH(book) ==
    AddFromMetadata(<<>>, book.Metadata.Title,
                    joinStrings(book.Metadata.Authors, CommaSpace),
                    book.Metadata.Publisher, book.Metadata.ISBN,
                    book.Metadata.Year, book.Metadata.Annotation,
                    book.Metadata.Rights, book.Metadata.Language)

\* --------------------------------------------------- records of a file

\* A payload handed to the PalmDB writer.  Record 0 is kept as the header
\* structure that is serialised (hdr) with the bytes that follow the header
\* (data: EXTH block and book name); every other payload is its bytes.  kind
\* names the call that built the payload.
Payload(kind, data) == [kind |-> kind, data |-> data, hdr |-> <<>>]
HeaderPayload(h, data) == [kind |-> "header", data |-> data, hdr |-> h]

\* the bytes of a payload: a header record is the serialised MOBI header
\* followed by its data
payloadBytes(r) ==
    IF r.kind = "header" THEN MOBIHeaderWrite(r.hdr) \o r.data ELSE r.data

\* the writer p with every record as its bytes
asBytes(p) == [p EXCEPT !.records = [i \in 1..Len(p.records) |-> payloadBytes(p.records[i])]]

\* PalmDBWriter.Write on a writer of payloads: the offsets stored in the
\* record entries
writtenEntries(p) == withOffsets(asBytes(p)).recordEntries

\* "FLIS" and "FCIS"
FLISMagic == <<70, 76, 73, 83>>
FCISMagic == <<70, 67, 73, 83>>
\* the magic FDST.Write stores, 0x46545354: the bytes "FTST"
FDSTMagic == <<70, 84, 83, 84>>
\* the bytes of the FDST header
FDSTHeaderLen == 12
\* the locale the MOBI 6 writer stores (Russian)
LocaleRU == 1049
\* the offset of the book name when no EXTH block is written
HeaderRegion == 248
\* the EXTHFlags bit set when a cover is passed
EXTHCoverFlag == 16
\* MOBIType and FileVersion of a KF8 header
MOBITypeKF8 == 248
KF8Version == 8

\* createFLISRecord
createFLISRecord ==
    FLISMagic \o BE32(8) \o BE16(65) \o BE16(0) \o BE32(0) \o BE32(NoIndex)
        \o BE16(1) \o BE16(3) \o BE32(3) \o BE32(1) \o BE32(NoIndex)

\* createFCISRecord
createFCISRecord(textSize) ==
    FCISMagic \o BE32(20) \o BE32(16) \o BE32(1) \o BE32(0) \o BE32(textSize)
        \o BE32(0) \o BE32(32) \o BE32(8) \o BE16(1) \o BE16(1) \o BE32(0)

\* the EOF record
EOFRecord == <<0, 0, 0, 0>>

\* createImageRecord
createImageRecord(data, filename) == data

\* generateThumbnail
generateThumbnail(coverData) == coverData

\* Writer.getBookName / Writer.GetBookName
getBookName(book, options) ==
    LET name == IF options.Title = <<>> THEN book.Metadata.Title ELSE options.Title
    IN  IF Len(name) > MaxNameLen THEN Slice(name, 0, MaxNameLen) ELSE name

\* a | bit for a single-bit value bit
OrBit(a, bit) == IF (a \div bit) % 2 = 1 THEN a ELSE a + bit

\* a faulty back-patch: the FLIS and FCIS indices exchanged
setStructuralIndicesSwapped(h, flisIndex, fcisIndex, indxOffset) ==
    [INDXRecordOffset |-> indxOffset]
        @@ [h EXCEPT !.FCISIndex = flisIndex, !.FLISIndex = fcisIndex]

\* createMOBIHeaderRecordExtended, "Set mandatory structural indices"
setStructuralIndices(h, flisIndex, fcisIndex, indxOffset) ==
    [INDXRecordOffset |-> indxOffset]
        @@ [h EXCEPT !.FCISIndex = fcisIndex, !.FLISIndex = flisIndex]

\* Writer.createMOBIHeaderRecordExtended; id is the value drawn by
\* generateRandomID for the new header
createMOBIHeaderRecordExtended(book, options, id, textSize, textRecordCount, firstTextRec, lastTextRec, firstImageIndex, firstNonBookIndex, flisIndex, fcisIndex, indxOffset) ==
    LET bookName == getBookName(book, options)
        h1 == [ExtraRecordFlags |-> 0]
              @@ [NewMOBIHeader(textSize, textRecordCount, id) EXCEPT
                     !.FirstContentRec = U16(firstTextRec),
                     !.LastContentRec = U16(lastTextRec),
                     !.TextEncoding = UTF8Encoding,
                     !.Locale = LocaleRU]
        h2 == setStructuralIndices(h1, flisIndex, fcisIndex, indxOffset)
        h0 == SetFullName(
                  [h2 EXCEPT !.Compression = U16(options.CompressionType),
                             !.FirstImageIndex = firstImageIndex,
                             !.FirstNonBookIndex = firstNonBookIndex],
                  bookName)
        hasCover == options.CoverImage.present
        exth0 == metadataEXTH(book)
        exth == IF hasCover
                THEN addRecord(addRecord(addRecord(addRecord(exth0,
                         EXTHCoverOffset, BE32(0)),
                         EXTHThumbOffset, BE32(1)),
                         EXTHHasFakeCover, BE32(0)),
                         EXTHK8CoverImage, K8CoverImageID)
                ELSE exth0
    IN  IF options.WithEXTH
        THEN HeaderPayload(
                 [h0 EXCEPT !.EXTHFlags = IF hasCover THEN OrBit(@, EXTHCoverFlag)
                                          ELSE @,
                            !.FullNameOffset = U32(HeaderRegion + GetTotalLength(exth))],
                 EXTHWrite(exth) \o bookName)
        ELSE HeaderPayload([h0 EXCEPT !.FullNameOffset = HeaderRegion], bookName)

\* Writer.createMOBIHeaderRecord
createMOBIHeaderRecord(book, options, id, textSize, firstTextRec, lastTextRec, firstImageIndex, firstNonBookIndex) ==
    createMOBIHeaderRecordExtended(book, options, id, textSize,
                                   lastTextRec - firstTextRec + 1,
                                   firstTextRec, lastTextRec, firstImageIndex,
                                   firstNonBookIndex, NoIndex, NoIndex, NoIndex)

RECURSIVE compressEach(_)
\* the loop of Write over the chunks with PalmDOC compression
compressEach(chunks) ==
    IF chunks = <<>> THEN <<>>
    ELSE <<compressRecord(Head(chunks))>> \o compressEach(Tail(chunks))

\* the last byte of every chunk but the last appended to its record
RECURSIVE appendOverlap(_, _)

appendOverlap(records, chunks) ==
    IF Len(records) <= 1 THEN records
    ELSE <<Head(records) \o <<Head(chunks)[Len(Head(chunks))]>> >>
             \o appendOverlap(Tail(records), Tail(chunks))

\* faulty text records: every record but the last followed by an overlap byte
textRecordsWithOverlap(options, textData) ==
    IF options.CompressionType = PalmDOCCompression
    THEN appendOverlap(compressEach(splitTextRecords(textData)),
                       splitTextRecords(textData))
    ELSE appendOverlap(splitTextRecords(textData), splitTextRecords(textData))

\* Write: the text records of textData
textRecordsOf(options, textData) ==
    IF options.CompressionType = PalmDOCCompression
    THEN compressEach(splitTextRecords(textData))
    ELSE splitTextRecords(textData)

RECURSIVE addAll(_, _, _, _)
\* AddRecord for each element of datas, with unique ids recordIndex, +1, ...
addAll(p, kind, datas, recordIndex) ==
    IF datas = <<>> THEN p
    ELSE addAll(AddRecord(p, Payload(kind, Head(datas)), 0, U32(recordIndex)),
                kind, Tail(datas), recordIndex + 1)

\* the data of the resources ids, in order
resourceData(book, ids) == [k \in 1..Len(ids) |-> book.Manifest[ids[k]].Data]

\* Writer.addImagesFiltered: the writer after the loop (recordIndex advances
\* by the number of records added)
addImagesFiltered(p, book, recordIndex, skipID) ==
    addAll(p, "image",
           resourceData(book, selectIDs(book, GetManifestIDs(book), skipID)),
           recordIndex)

\* FDST.Write for the entry list entries
FDSTWrite(entries) ==
    FDSTMagic \o BE32(U32(FDSTHeaderLen + Len(entries) * 8)) \o BE32(Len(entries))
        \o Concat([k \in 1..Len(entries) |->
                      BE32(entries[k].Start) \o BE32(entries[k].End)])

\* ---------------------------------------------------------------- state

VARIABLES
    pdb,        \* the PalmDBWriter: name, records, recordEntries
    output,     \* what Write calls have sent to the output
    book,       \* the OEBBook being written
    options,    \* the write options
    w,          \* the locals of the running Write / WriteJointFile and its position
    cdc,        \* the codec under test: input, compressed and decompressed bytes
    hw,         \* the MOBI header under test and the bytes written from it
    vw,         \* the varint codec under test: value or bytes in, encoding and result
    ix,         \* the TOC index builder under test and the INDX it builds
    sk          \* the skeleton and the FDST under test

vars == <<pdb, output, book, options, w, cdc, hw, vw, ix, sk>>

\* ---------------------------------------------------------------- inputs

\* the most children of the TOC root
MaxTOCChildren == 1
\* the most records added to a PalmDB writer driven directly
MaxRecords == 3
\* the most Write calls on a PalmDB writer driven directly
MaxWrites == 2
\* the longest input of the codec
MaxLen == 3

\* the values generateRandomID and generateRandomUniqueIDSeed may return: the
\* least, 1, and the greatest, 0xFFFFFFFF
RandomIDs == {1, NoIndex}

\* media types: "image/png", "text/css" and the five-byte "image"
ImagePNG == <<105, 109, 97, 103, 101, 47, 112, 110, 103>>
TextCSS == <<116, 101, 120, 116, 47, 99, 115, 115>>
ImageShort == <<105, 109, 97, 103, 101>>

\* resource ids "a", "ab", "b" and an id of no resource, "zz"
IdA == <<97>>
IdAB == <<97, 98>>
IdB == <<98>>

\* the bytes of the resource id: a marker byte and the id
imageData(id) == <<137>> \o id

\* a manifest with the resources ids, those of css typed text/css, those of
\* short typed "image", the others image/png
ManifestOf(ids, css, short) ==
    [id \in ids |->
        [MediaType |-> IF id \in css THEN TextCSS
                       ELSE IF id \in short THEN ImageShort ELSE ImagePNG,
         Data |-> imageData(id)]]

Manifests ==
    { ManifestOf({}, {}, {}),
      ManifestOf({IdA}, {}, {}),
      ManifestOf({IdAB}, {}, {}),
      ManifestOf({IdA, IdAB}, {}, {}),
      ManifestOf({IdA, IdAB, IdB}, {}, {}),
      ManifestOf({IdA, IdB}, {IdB}, {}),
      ManifestOf({IdAB, IdB}, {}, {IdB}) }

\* the bytes of a cover passed in the options
CoverBytes == <<255, 216>>

\* texts: empty, plain, one reference, references in both quotes, with a
\* "#" prefix, to a stylesheet and to no resource, and `x<p id="a">`, the
\* target of the TOC entry
TxtPlain == <<120>>
TxtOne == <<60, 105, 109, 103, 32, 115, 114, 99, 61, 34, 97, 34, 47, 62>>
TxtMany == <<115, 114, 99, 61, 34, 97, 34, 32, 115, 114, 99, 61, 39, 35, 97, 98, 39, 32, 115, 114, 99, 61, 34, 98, 34, 32, 115, 114, 99, 61, 34, 122, 122, 34>>
TxtAnchor == <<120, 60, 112, 32, 105, 100, 61, 34, 97, 34, 62>>
ShortTexts == {<<>>, TxtPlain, TxtOne, TxtMany, TxtAnchor}

\* texts around the record size: exactly one record, one byte more, two
\* records and a byte, and a text that outgrows one record when its reference
\* is rewritten
TxtRef == <<115, 114, 99, 61, 34, 97, 34>>
LongTexts ==
    { Repeat(<<65>>, RecordSize),
      Repeat(<<65>>, RecordSize + 1),
      Repeat(<<65, 66>>, 2 * RecordSize + 1),
      Repeat(<<65>>, RecordSize - Len(TxtRef)) \o TxtRef }

RECURSIVE withChildren(_, _)
\* n calls of AddChild("c", "Ch", "#a") on the entry e
withChildren(e, n) ==
    IF n = 0 THEN e
    ELSE AddChild(withChildren(e, n - 1), <<99>>, <<67, 104>>, <<35, 97>>)

\* the child those calls add
TOCEntry == withChildren(ZeroTOCEntry, 1).Children[1]

\* the TOC converter.go builds, its root named "root", with up to
\* MaxTOCChildren children, and a TOC built on the zero root with one child
TOCs ==
    {withChildren([ZeroTOCEntry EXCEPT !.ID = RootID], n) : n \in 0..MaxTOCChildren}
        \cup {withChildren(ZeroTOCEntry, 1)}

BookOf(content, manifest, coverID, toc) ==
    [Content |-> content,
     Manifest |-> manifest,
     TOC |-> toc,
     Metadata |-> [Title |-> <<66, 107>>,
                   Authors |-> << <<65, 110>>, <<66, 111>> >>,
                   Publisher |-> <<>>,
                   ISBN |-> <<>>,
                   Year |-> <<50, 48, 50, 48>>,
                   Annotation |-> <<>>,
                   Rights |-> <<>>,
                   Language |-> <<114, 117>>,
                   CoverID |-> coverID]]

NoCover == [present |-> FALSE, data |-> <<>>]
Covers == {NoCover, [present |-> TRUE, data |-> CoverBytes]}

\* DefaultWriteOptions / DefaultKF8WriteOptions with the fields a caller sets
OptionsOf(compression, cover, generateTOC, withEXTH, generateFDST) ==
    [CompressionType |-> compression,
     WithEXTH |-> withEXTH,
     Title |-> <<>>,
     CoverImage |-> cover,
     GenerateTOC |-> generateTOC,
     EnableChunking |-> FALSE,
     GenerateFDST |-> generateFDST]

\* MOBI 6 writes of short texts, over every manifest, cover and TOC setting
ShortConfigs ==
    { [entry |-> "mobi6",
       book |-> BookOf(c, m, cid, toc),
       options |-> OptionsOf(comp, cover, gen, exth, TRUE)] :
        c \in ShortTexts, m \in Manifests, cid \in {<<>>, IdAB}, toc \in TOCs,
        comp \in {NoCompression, PalmDOCCompression}, cover \in Covers,
        gen \in BOOLEAN, exth \in BOOLEAN }

\* MOBI 6 writes of long texts
LongConfigs ==
    { [entry |-> "mobi6",
       book |-> BookOf(c, m, <<>>, toc),
       options |-> OptionsOf(comp, NoCover, TRUE, TRUE, TRUE)] :
        c \in LongTexts,
        m \in {ManifestOf({}, {}, {}), ManifestOf({IdA}, {}, {})},
        toc \in TOCs, comp \in {NoCompression, PalmDOCCompression} }

\* joint writes (WriteJointFile), chunking disabled
JointConfigs ==
    { [entry |-> "joint",
       book |-> BookOf(c, m, <<>>, ZeroTOCEntry),
       options |-> OptionsOf(NoCompression, NoCover, TRUE, TRUE, fdst)] :
        c \in ShortTexts \cup LongTexts,
        m \in {ManifestOf({}, {}, {}), ManifestOf({IdA, IdB}, {IdB}, {})},
        fdst \in BOOLEAN }

\* titles that are not ASCII: the Cyrillic letters Zhe, ya (D0 96 D1 8F) and
\* twenty letters a (D0 B0), of which getBookName keeps 31 bytes
CyrillicTitles == { stringOf(<<1046, 1103>>), Repeat(<<208, 176>>, 40) }

\* MOBI 6 and joint writes of the text "x" under those titles
TitledConfigs ==
    { [entry |-> entry,
       book |-> [BookOf(<<120>>, ManifestOf({}, {}, {}), <<>>, ZeroTOCEntry)
                    EXCEPT !.Metadata.Title = title],
       options |-> OptionsOf(NoCompression, NoCover, TRUE, TRUE, TRUE)] :
        entry \in {"mobi6", "joint"}, title \in CyrillicTitles }

Configs == ShortConfigs \cup LongConfigs \cup JointConfigs \cup TitledConfigs

\* the locals of a write that has not started
WriterStart(entry) ==
    [entry |-> entry, pc |-> "start",
     hasTOC |-> FALSE, resolvedContent |-> <<>>, uncompressedSize |-> 0,
     textRecords |-> <<>>, recordCount |-> 0, recordIndex |-> 0,
     firstTextRecord |-> 0, lastTextRecord |-> 0,
     firstImageIndex |-> NoIndex, firstNonBookIndex |-> NoIndex,
     tocIndexOffset |-> NoIndex, lastContentRec |-> 0,
     flisIndex |-> 0, fcisIndex |-> 0,
     kf8Content |-> <<>>, kf8TextData |-> <<>>,
     firstTextRec |-> 0, lastTextRec |-> 0]

\* resized: {0} once a SetRecord has changed the length of record 0 since the
\* last Write; afterResize: that set as the last Write found it
NoOutput == [writes |-> 0, bytes |-> <<>>, records |-> <<>>,
             resized |-> {}, afterResize |-> {}]
NoWriter == NewPalmDBWriter(<<>>)
CodecIdle == [pc |-> "idle", input |-> <<>>, compressed |-> <<>>,
              decompressed |-> <<>>]
HeaderIdle == [pc |-> "idle", header |-> NewMOBIHeader(0, 0, 1), bytes |-> <<>>]
VarintIdle == [pc |-> "idle"]
IndexIdle == [pc |-> "idle"]
SkeletonIdle == [pc |-> "idle"]

\* the variables of the library functions under test, at rest
LibraryIdle == vw = VarintIdle /\ ix = IndexIdle /\ sk = SkeletonIdle

\* --------------------------------------- Writer.Write (MOBI 6), by phase

\* lines 68-84: hasTOC and the two resolution passes
WResolve ==
    /\ w.entry = "mobi6" /\ w.pc = "start"
    /\ LET dummyContent == resolveImageSources(book, options, book.Content, 0)
           resolvedContent == resolveImageSources(book, options, book.Content, 0)
       IN  w' = [w EXCEPT !.pc = "split",
                          !.hasTOC = options.GenerateTOC
                                        /\ Len(book.TOC.Children) > 0,
                          !.resolvedContent = resolvedContent,
                          !.uncompressedSize = Len(resolvedContent)]
    /\ UNCHANGED <<pdb, output, book, options, cdc, hw, vw, ix, sk>>

\* lines 86-131: the text records, the PalmDB writer and the first values of
\* the image indices
WSplit ==
    /\ w.entry = "mobi6" /\ w.pc = "split"
    /\ LET textRecords == textRecordsOf(options, w.resolvedContent)
           recordCount == Len(textRecords)
           firstTextRecord == 1
           hasCover == options.CoverImage.present
           hasImages == HasImages(book)
           first == IF hasCover \/ hasImages
                    THEN U32(firstTextRecord + recordCount) ELSE NoIndex
       IN  w' = [w EXCEPT !.pc = "header",
                          !.textRecords = textRecords,
                          !.recordCount = recordCount,
                          !.recordIndex = 0,
                          !.firstTextRecord = firstTextRecord,
                          !.lastTextRecord = firstTextRecord + recordCount - 1,
                          !.firstImageIndex = first,
                          !.firstNonBookIndex = first]
    /\ pdb' = NewPalmDBWriter(getBookName(book, options))
    /\ UNCHANGED <<output, book, options, cdc, hw, vw, ix, sk>>

\* lines 133-141: the placeholder header becomes record 0
WAddHeader ==
    /\ w.entry = "mobi6" /\ w.pc = "header"
    /\ \E id \in RandomIDs :
          pdb' = AddRecord(pdb,
                     createMOBIHeaderRecord(book, options, id, w.uncompressedSize,
                         w.firstTextRecord, w.lastTextRecord,
                         w.firstImageIndex, w.firstNonBookIndex),
                     0, U32(w.recordIndex))
    /\ w' = [w EXCEPT !.pc = "text", !.recordIndex = @ + 1]
    /\ UNCHANGED <<output, book, options, cdc, hw, vw, ix, sk>>

\* lines 143-147: the text records
WAddText ==
    /\ w.entry = "mobi6" /\ w.pc = "text"
    /\ pdb' = addAll(pdb, "text", w.textRecords, w.recordIndex)
    /\ w' = [w EXCEPT !.pc = "toc", !.recordIndex = @ + Len(w.textRecords)]
    /\ UNCHANGED <<output, book, options, cdc, hw, vw, ix, sk>>

RECURSIVE addTOCEntries(_, _, _)
\* GenerateTOCIndex's loop over the flattened entries; uint32(entry.Level) of
\* a negative Level is a level of 2^31 or more, which AddEntry compares as
\* such
addTOCEntries(b, htmlContent, entries) ==
    IF entries = <<>> THEN b
    ELSE LET entry == Head(entries)
         IN  addTOCEntries(
                 IF entry.ID = RootID THEN b
                 ELSE TOCAddEntry(b, entry.Label, entry.Href, U32(entry.Level),
                                  FindOffsetForHref(htmlContent, entry.Href)),
                 htmlContent, Tail(entries))

\* Writer.GenerateTOCIndex: the INDX built
GenerateTOCIndex(b, htmlContent, textRecords) ==
    Build(addTOCEntries(SetTextRecords(NewTOCIndexBuilder, textRecords),
                        htmlContent, Flatten(b.TOC)))

\* The record GenerateTOCIndex and INDX.Encode produce for the TOC
tocINDXRecord(b, resolvedContent, textRecords) ==
    Payload("indx", INDXEncode(GenerateTOCIndex(b, resolvedContent, textRecords)))

\* lines 149-166: the TOC index record
WAddTOC ==
    /\ w.entry = "mobi6" /\ w.pc = "toc"
    /\ IF options.GenerateTOC /\ Len(book.TOC.Children) > 0
       THEN /\ pdb' = AddRecord(pdb,
                          tocINDXRecord(book, w.resolvedContent, w.textRecords),
                          0, U32(w.recordIndex))
            /\ w' = [w EXCEPT !.pc = "images",
                               !.tocIndexOffset = U32(w.recordIndex),
                               !.recordIndex = @ + 1]
       ELSE /\ pdb' = pdb
            /\ w' = [w EXCEPT !.pc = "images", !.tocIndexOffset = NoIndex]
    /\ UNCHANGED <<output, book, options, cdc, hw, vw, ix, sk>>

\* lines 170-194: cover, thumbnail and the manifest images
WAddImages ==
    /\ w.entry = "mobi6" /\ w.pc = "images"
    /\ LET coverID == book.Metadata.CoverID
           hasCover == options.CoverImage.present
           cover == options.CoverImage.data
           p1 == IF hasCover
                 THEN AddRecord(pdb,
                          Payload("cover", createImageRecord(cover, "cover.jpg")),
                          0, U32(w.recordIndex))
                 ELSE pdb
           \* generateThumbnail returns the cover, which is not nil here
           p2 == IF hasCover
                 THEN AddRecord(p1,
                          Payload("thumb",
                              createImageRecord(generateThumbnail(cover),
                                                "thumb.jpg")),
                          0, U32(w.recordIndex + 1))
                 ELSE p1
           idx == IF hasCover THEN w.recordIndex + 2 ELSE w.recordIndex
           p3 == addImagesFiltered(p2, book, idx, coverID)
       IN  IF hasCover \/ HasImages(book)
           THEN /\ pdb' = p3
                /\ w' = [w EXCEPT !.pc = "structural",
                                   !.firstImageIndex = U32(w.recordIndex),
                                   !.recordIndex = Len(p3.records)]
           ELSE /\ pdb' = pdb
                /\ w' = [w EXCEPT !.pc = "structural",
                                   !.firstImageIndex = NoIndex]
    /\ UNCHANGED <<output, book, options, cdc, hw, vw, ix, sk>>

\* a faulty last content record: the index of the FLIS record itself
lastContentRecAtFLIS(recordIndex) == U32(recordIndex)

\* Write, line 197: lastContentRec, the index of the last record added so far
lastContentRecOf(recordIndex) == U32(recordIndex - 1)

\* lines 196-211: lastContentRec, then FLIS, FCIS and EOF
WAddStructural ==
    /\ w.entry = "mobi6" /\ w.pc = "structural"
    /\ LET flisIndex == U32(w.recordIndex)
           fcisIndex == U32(w.recordIndex + 1)
           p1 == AddRecord(pdb, Payload("flis", createFLISRecord), 0, flisIndex)
           p2 == AddRecord(p1,
                     Payload("fcis", createFCISRecord(U32(w.uncompressedSize))),
                     0, fcisIndex)
       IN  /\ pdb' = AddRecord(p2, Payload("eof", EOFRecord), 0,
                               U32(w.recordIndex + 2))
           /\ w' = [w EXCEPT !.pc = "patch",
                              !.lastContentRec = lastContentRecOf(w.recordIndex),
                              !.flisIndex = flisIndex,
                              !.fcisIndex = fcisIndex,
                              !.recordIndex = @ + 3]
    /\ UNCHANGED <<output, book, options, cdc, hw, vw, ix, sk>>

\* lines 213-221: the header with the real indices replaces record 0
WBackPatch ==
    /\ w.entry = "mobi6" /\ w.pc = "patch"
    /\ \E id \in RandomIDs :
          pdb' = SetRecord(pdb, 0,
                     createMOBIHeaderRecordExtended(book, options, id,
                         w.uncompressedSize, w.recordCount, w.firstTextRecord,
                         w.lastContentRec, w.firstImageIndex,
                         w.firstNonBookIndex, w.flisIndex, w.fcisIndex,
                         w.tocIndexOffset))
    /\ w' = [w EXCEPT !.pc = "write"]
    /\ UNCHANGED <<output, book, options, cdc, hw, vw, ix, sk>>

\* lines 223-227: palmWriter.Write stores the offsets in the record entries
\* and sends the file to the output, which also keeps the records written
WWrite ==
    /\ w.entry = "mobi6" /\ w.pc = "write"
    /\ \E seed \in RandomIDs :
          output' = [output EXCEPT !.writes = @ + 1,
                                   !.bytes = PalmDBWrite(asBytes(pdb), seed),
                                   !.records = pdb.records]
    /\ pdb' = [pdb EXCEPT !.recordEntries = writtenEntries(pdb)]
    /\ w' = [w EXCEPT !.pc = "done"]
    /\ UNCHANGED <<book, options, cdc, hw, vw, ix, sk>>

\* ------------------------------------ KF8Writer.WriteJointFile, by phase

\* lines 198-221: the KF8 content and the PalmDB writer.  Only the branch
\* without chunking is modelled: the inputs leave EnableChunking off.
JPrepare ==
    /\ w.entry = "joint" /\ w.pc = "start"
    /\ ~options.EnableChunking
    /\ w' = [w EXCEPT !.pc = "text", !.kf8Content = book.Content,
                       !.recordIndex = 0]
    /\ pdb' = NewPalmDBWriter(getBookName(book, options))
    /\ UNCHANGED <<output, book, options, cdc, hw, vw, ix, sk>>

\* lines 223-237: the whole text is compressed, then split into records
JAddText ==
    /\ w.entry = "joint" /\ w.pc = "text"
    /\ LET kf8TextData == CompressPalmDOC(w.kf8Content)
           kf8TextRecords == splitTextRecords(kf8TextData)
           recordIndex == w.recordIndex + Len(kf8TextRecords)
       IN  /\ pdb' = addAll(pdb, "text", kf8TextRecords, w.recordIndex)
           /\ w' = [w EXCEPT !.pc = "images",
                              !.kf8TextData = kf8TextData,
                              !.textRecords = kf8TextRecords,
                              !.firstTextRec = w.recordIndex,
                              !.recordIndex = recordIndex,
                              !.lastTextRec = recordIndex - 1]
    /\ UNCHANGED <<output, book, options, cdc, hw, vw, ix, sk>>

\* lines 239-251: the image resources in the order of GetManifestIDs
JAddImages ==
    /\ w.entry = "joint" /\ w.pc = "images"
    /\ pdb' = addAll(pdb, "image",
                  resourceData(book, imageIDs(book, GetManifestIDs(book))),
                  w.recordIndex)
    /\ w' = [w EXCEPT !.pc = "fdst", !.recordIndex = Len(pdb'.records)]
    /\ UNCHANGED <<output, book, options, cdc, hw, vw, ix, sk>>

\* lines 253-260: the FDST record; without chunking the table has no entry
JAddFDST ==
    /\ w.entry = "joint" /\ w.pc = "fdst"
    /\ IF options.GenerateFDST
       THEN /\ pdb' = AddRecord(pdb, Payload("fdst", FDSTWrite(<<>>)), 0,
                                U32(w.recordIndex))
            /\ w' = [w EXCEPT !.pc = "header", !.recordIndex = @ + 1]
       ELSE /\ pdb' = pdb
            /\ w' = [w EXCEPT !.pc = "header"]
    /\ UNCHANGED <<output, book, options, cdc, hw, vw, ix, sk>>

\* the header WriteJointFile builds (lines 266-278, 297)
jointHeader(b, opts, id, kf8Content, firstTextRec, lastTextRec) ==
    SetEXTHFlags(
        SetContentRecords(
            [FileVersion |-> KF8Version]
            @@ [SetFullName(NewMOBIHeader(Len(kf8Content),
                                CalculateRecordCount(Len(kf8Content)), id),
                            getBookName(b, opts))
                EXCEPT !.MOBIType = MOBITypeKF8,
                       !.Compression = PalmDOCCompression],
            U16(firstTextRec + 1), U16(lastTextRec + 1)),
        EXTHFlagsDefault)

\* lines 262-341: the header is built and put in front of the records; the
\* unique ids are renumbered
JHeader ==
    /\ w.entry = "joint" /\ w.pc = "header"
    /\ \E id \in RandomIDs :
          LET h == jointHeader(book, options, id, w.kf8Content,
                               w.firstTextRec, w.lastTextRec)
              newRecords ==
                  <<HeaderPayload(h, EXTHWrite(metadataEXTH(book)))>>
                      \o pdb.records
              newRecordEntries ==
                  <<[Offset |-> 0, Attributes |-> 0, UniqueID |-> 0]>>
                      \o [i \in 1..Len(pdb.recordEntries) |->
                             [Offset |-> 0,
                              Attributes |-> pdb.recordEntries[i].Attributes,
                              UniqueID |-> U32(i)]]
          IN  pdb' = SetRecords(pdb, newRecords, newRecordEntries)
    /\ w' = [w EXCEPT !.pc = "write"]
    /\ UNCHANGED <<output, book, options, cdc, hw, vw, ix, sk>>

\* lines 343-346: palmWriter.Write stores the offsets in the record entries
\* and sends the file to the output, which also keeps the records written
JWrite ==
    /\ w.entry = "joint" /\ w.pc = "write"
    /\ \E seed \in RandomIDs :
          output' = [output EXCEPT !.writes = @ + 1,
                                   !.bytes = PalmDBWrite(asBytes(pdb), seed),
                                   !.records = pdb.records]
    /\ pdb' = [pdb EXCEPT !.recordEntries = writtenEntries(pdb)]
    /\ w' = [w EXCEPT !.pc = "done"]
    /\ UNCHANGED <<book, options, cdc, hw, vw, ix, sk>>

\* ------------------------------------------------ the writers' behaviour

Init ==
    /\ \E c \in Configs :
          /\ book = c.book
          /\ options = c.options
          /\ w = WriterStart(c.entry)
    /\ pdb = NoWriter
    /\ output = NoOutput
    /\ cdc = CodecIdle
    /\ hw = HeaderIdle
    /\ LibraryIdle

Next ==
    \/ WResolve \/ WSplit \/ WAddHeader \/ WAddText \/ WAddTOC \/ WAddImages
    \/ WAddStructural \/ WBackPatch \/ WWrite
    \/ JPrepare \/ JAddText \/ JAddImages \/ JAddFDST \/ JHeader \/ JWrite

Spec == Init /\ [][Next]_vars

\* ------------------------------------- the PalmDB writer driven directly

\* database names: "Bk" and the Cyrillic letters Zhe, ya (D0 96 D1 8F)
PalmNames == { <<66, 107>>, stringOf(<<1046, 1103>>) }
\* payloads of three lengths
PalmPayloads == { <<>>, <<7>>, <<8, 9>> }

IdleBook == BookOf(<<>>, ManifestOf({}, {}, {}), <<>>, ZeroTOCEntry)
IdleOptions == OptionsOf(NoCompression, NoCover, TRUE, TRUE, TRUE)
IdleWriter == [WriterStart("none") EXCEPT !.pc = "idle"]

PalmInit ==
    /\ \E name \in PalmNames : pdb = NewPalmDBWriter(name)
    /\ output = NoOutput
    /\ book = IdleBook
    /\ options = IdleOptions
    /\ w = IdleWriter
    /\ cdc = CodecIdle
    /\ hw = HeaderIdle
    /\ LibraryIdle

\* a call of AddRecord
PalmAddRecord ==
    /\ Len(pdb.records) < MaxRecords
    /\ \E data \in PalmPayloads :
          pdb' = AddRecord(pdb, data, 0, U32(Len(pdb.records)))
    /\ UNCHANGED <<output, book, options, w, cdc, hw, vw, ix, sk>>

\* a call of SetRecord, with indices in and out of range
PalmSetRecord ==
    /\ \E index \in (-1)..MaxRecords, data \in PalmPayloads :
          /\ pdb' = SetRecord(pdb, index, data)
          /\ output' = [output EXCEPT !.resized =
                           IF /\ index = 0 /\ index < Len(pdb.records)
                              /\ Len(pdb.records[index + 1]) # Len(data)
                           THEN @ \cup {index} ELSE @]
    /\ UNCHANGED <<book, options, w, cdc, hw, vw, ix, sk>>

\* a call of Write: the offsets are stored in the entries, the file is sent
PalmWrite ==
    /\ output.writes < MaxWrites
    /\ \E seed \in RandomIDs :
          output' = [writes |-> output.writes + 1,
                     bytes |-> PalmDBWrite(pdb, seed),
                     records |-> pdb.records,
                     resized |-> {},
                     afterResize |-> output.resized]
    /\ pdb' = withOffsets(pdb)
    /\ UNCHANGED <<book, options, w, cdc, hw, vw, ix, sk>>

PalmNext == PalmAddRecord \/ PalmSetRecord \/ PalmWrite

PalmSpec == PalmInit /\ [][PalmNext]_vars

\* ------------------------------------------ the codec driven directly

\* a space, a letter, a control byte and a high byte
CodecAlphabet == {32, 65, 1, 200}

RECURSIVE stringsUpTo(_)
\* the byte strings over the alphabet of length at most n
stringsUpTo(n) ==
    IF n = 0 THEN {<<>>}
    ELSE LET shorter == stringsUpTo(n - 1)
         IN  shorter \cup {Append(t, c) : t \in shorter, c \in CodecAlphabet}

\* longer inputs: a repeated word (back-references), a run of a control byte
\* and a mix of the token kinds
CodecTexts ==
    { <<97, 98, 99, 97, 98, 99, 97, 98, 99>>,
      <<1, 1, 1, 1, 1>>,
      <<116, 104, 101, 32, 99, 97, 116, 32, 116, 104, 101, 32, 99, 97, 116>> \o <<200, 200>> }

CodecInit ==
    /\ \E input \in stringsUpTo(MaxLen) \cup CodecTexts :
          cdc = [pc |-> "start", input |-> input, compressed |-> <<>>,
                 decompressed |-> <<>>]
    /\ pdb = NoWriter
    /\ output = NoOutput
    /\ book = IdleBook
    /\ options = IdleOptions
    /\ w = IdleWriter
    /\ hw = HeaderIdle
    /\ LibraryIdle

CodecCompress ==
    /\ cdc.pc = "start"
    /\ cdc' = [cdc EXCEPT !.pc = "compressed",
                          !.compressed = CompressPalmDOC(cdc.input)]
    /\ UNCHANGED <<pdb, output, book, options, w, hw, vw, ix, sk>>

CodecDecompress ==
    /\ cdc.pc = "compressed"
    /\ cdc' = [cdc EXCEPT !.pc = "done",
                          !.decompressed = DecompressPalmDOC(cdc.compressed)]
    /\ UNCHANGED <<pdb, output, book, options, w, hw, vw, ix, sk>>

CodecNext == CodecCompress \/ CodecDecompress

CodecSpec == CodecInit /\ [][CodecNext]_vars

\* ------------------------------------ the MOBI header driven directly

\* arguments of NewMOBIHeader
HeaderTextSizes == {0, 1, RecordSize, RecordSize + 1, 100000}
HeaderRecordCounts == {0, 1, 2, 25}
\* names for SetFullName
HeaderNames == { <<>>, <<66, 107>> }

HeaderInit ==
    /\ \E textSize \in HeaderTextSizes, recordCount \in HeaderRecordCounts,
          id \in RandomIDs :
          hw = [pc |-> "new",
                header |-> NewMOBIHeader(textSize, recordCount, id),
                bytes |-> <<>>]
    /\ pdb = NoWriter
    /\ output = NoOutput
    /\ book = IdleBook
    /\ options = IdleOptions
    /\ w = IdleWriter
    /\ cdc = CodecIdle
    /\ LibraryIdle

HSetFullName ==
    /\ hw.pc = "new"
    /\ \E name \in HeaderNames :
          hw' = [hw EXCEPT !.header = SetFullName(@, name)]
    /\ UNCHANGED <<pdb, output, book, options, w, cdc, vw, ix, sk>>

HSetEXTHFlags ==
    /\ hw.pc = "new"
    /\ \E flags \in {0, EXTHFlagsDefault} :
          hw' = [hw EXCEPT !.header = SetEXTHFlags(@, flags)]
    /\ UNCHANGED <<pdb, output, book, options, w, cdc, vw, ix, sk>>

HSetCoverIndex ==
    /\ hw.pc = "new"
    /\ \E index \in {0, NoIndex} :
          hw' = [hw EXCEPT !.header = SetCoverIndex(@, index)]
    /\ UNCHANGED <<pdb, output, book, options, w, cdc, vw, ix, sk>>

HSetContentRecords ==
    /\ hw.pc = "new"
    /\ \E last \in {1, 2} :
          hw' = [hw EXCEPT !.header = SetContentRecords(@, 1, last)]
    /\ UNCHANGED <<pdb, output, book, options, w, cdc, vw, ix, sk>>

HWrite ==
    /\ hw.pc = "new"
    /\ hw' = [hw EXCEPT !.pc = "written", !.bytes = MOBIHeaderWrite(hw.header)]
    /\ UNCHANGED <<pdb, output, book, options, w, cdc, vw, ix, sk>>

HeaderNext ==
    HSetFullName \/ HSetEXTHFlags \/ HSetCoverIndex \/ HSetContentRecords
        \/ HWrite

HeaderSpec == HeaderInit /\ [][HeaderNext]_vars

\* =============================================================== properties

\* ---- the file of a finished write

Mobi6Done == w.entry = "mobi6" /\ w.pc = "done"
JointDone == w.entry = "joint" /\ w.pc = "done"

\* the records of the file and the header in record 0
File == output.records
FileHeader == File[1].hdr

\* the record at absolute index i
RecordAt(i) == File[i + 1]

\* the absolute indices of the records of kind k
IndicesOf(k) == {i \in 0..(Len(File) - 1) : RecordAt(i).kind = k}

\* the absolute indices of the records whose bytes start with magic
IndicesWithMagic(magic) ==
    {i \in 1..(Len(File) - 1) :
        /\ Len(RecordAt(i).data) >= 4
        /\ Slice(RecordAt(i).data, 0, 4) = magic}

\* the number of text records of the file
K == Cardinality(IndicesOf("text"))

\* the 4096-byte slice number i (from 1) of text
TextSlice(text, i) ==
    Slice(text, (i - 1) * RecordSize,
          IF i * RecordSize > Len(text) THEN Len(text) ELSE i * RecordSize)

\* ceil(L / 4096)
CeilRecords(L) == (L + RecordSize - 1) \div RecordSize

\* ---- C1

\* C1: in every PalmDB file written, after any sequence of AddRecord and
\* SetRecord calls, the offset stored in index entry i is 78 + 8*N + the sum of
\* the lengths of the payloads of records 0..i-1 as written (N records), the
\* payload of record i lies at that offset, and the file ends after the last
\* payload.
C1_OffsetsPointAtPayloads ==
    output.writes > 0 =>
        LET N == Len(output.records)
        IN  /\ Len(output.bytes) = 78 + 8 * N + SumLen(output.records)
            /\ \A i \in 0..(N - 1) :
                  LET off == U32At(output.bytes, 78 + 8 * i)
                  IN  /\ off = 78 + 8 * N + SumLen(SubSeq(output.records, 1, i))
                      /\ Slice(output.bytes, off, off + Len(output.records[i + 1]))
                             = output.records[i + 1]

\* a file of at least two records written after record 0 was replaced by a
\* payload of another length, later records holding bytes
C1_Witness ==
    /\ output.writes > 0
    /\ 0 \in output.afterResize
    /\ Len(output.records) >= 2
    /\ Len(output.records[2]) > 0

\* ---- C2

\* the key under which the cover passed in the options is referenced
CoverKey ==
    IF book.Metadata.CoverID # <<>> THEN book.Metadata.CoverID ELSE CoverName

\* the ids of the book's images: the image resources of the manifest and,
\* when a cover is passed, the cover
ImageIDs ==
    {id \in DOMAIN book.Manifest : isImage(book.Manifest[id])}
        \cup (IF options.CoverImage.present THEN {CoverKey} ELSE {})

\* the bytes of the image id
ImageBytes(id) ==
    IF options.CoverImage.present /\ id = CoverKey
    THEN options.CoverImage.data
    ELSE book.Manifest[id].Data

\* the 1-based positions relative to FirstImageIndex at which the file holds
\* the image id
PlacesOf(id) ==
    {n \in 1..Len(File) :
        /\ FileHeader.FirstImageIndex # NoIndex
        /\ FileHeader.FirstImageIndex + n - 1 < Len(File)
        /\ RecordAt(FileHeader.FirstImageIndex + n - 1).kind
               \in {"cover", "thumb", "image"}
        /\ RecordAt(FileHeader.FirstImageIndex + n - 1).data = ImageBytes(id)}

\* whether the text of the book references id
Referenced(id) ==
    replaceAllFrom(book.Content, 0, [k \in {id} |-> 0]) # book.Content

\* the text with every reference to a placed image rewritten to the least
\* position of that image
RewrittenByPlacement ==
    LET placed == {id \in ImageIDs : PlacesOf(id) # {}}
    IN  replaceAllFrom(book.Content, 0,
            [id \in placed |->
                (CHOOSE n \in PlacesOf(id) : \A o \in PlacesOf(id) : n <= o) - 1])

\* C2: in the text written by the MOBI 6 writer every reference to an image of
\* the book is rewritten to recindex="NNNNN", NNNNN the 1-based position of the
\* image relative to FirstImageIndex: the record at FirstImageIndex + NNNNN - 1
\* holds the referenced image (cover 1, thumbnail 2, then the manifest images).
C2_ReferencesPointAtImageRecords ==
    Mobi6Done =>
        /\ \A id \in ImageIDs : Referenced(id) => PlacesOf(id) # {}
        /\ w.resolvedContent = RewrittenByPlacement

\* the same statement for the books whose cover id names no manifest image
\* that is written without a cover passed in the options
CoverIDImageKept ==
    \/ options.CoverImage.present
    \/ book.Metadata.CoverID \notin DOMAIN book.Manifest
    \/ ~isImage(book.Manifest[book.Metadata.CoverID])

C2_ReferencesWhenCoverKept ==
    (Mobi6Done /\ CoverIDImageKept) =>
        /\ \A id \in ImageIDs : Referenced(id) => PlacesOf(id) # {}
        /\ w.resolvedContent = RewrittenByPlacement

\* ---- C3

\* C3: after the back-patch, FLISIndex and FCISIndex of record 0 are the
\* absolute indices of the one FLIS and the one FCIS record of the file, and
\* INDXRecordOffset is the absolute index of the TOC INDX record; with an empty
\* TOC (or no TOC requested) there is no INDX record and the field is
\* 0xFFFFFFFF.
C3_StructuralIndicesBackPatched ==
    Mobi6Done =>
        /\ IndicesWithMagic(FLISMagic) = {FileHeader.FLISIndex}
        /\ RecordAt(FileHeader.FLISIndex).data = createFLISRecord
        /\ IndicesWithMagic(FCISMagic) = {FileHeader.FCISIndex}
        /\ IF IndicesOf("indx") = {}
           THEN FileHeader.INDXRecordOffset = NoIndex
           ELSE IndicesOf("indx") = {FileHeader.INDXRecordOffset}
        /\ (Len(book.TOC.Children) = 0 \/ ~options.GenerateTOC)
               <=> IndicesOf("indx") = {}

\* a finished file with a TOC INDX record and image records before FLIS
C3_Witness ==
    /\ Mobi6Done
    /\ IndicesOf("indx") # {}
    /\ IndicesOf("image") # {}
    /\ IndicesOf("cover") # {}
    /\ FileHeader.FLISIndex >= 6

\* ---- C4

\* the absolute indices of the image records of the file
ImageRecordIndices ==
    IndicesOf("cover") \cup IndicesOf("thumb") \cup IndicesOf("image")

\* the least element of a non-empty set of indices
Least(S) == CHOOSE n \in S : \A o \in S : n <= o

\* C4: in record 0 of a MOBI 6 file FirstImageIndex and FirstNonBookIndex are
\* equal to each other and to the absolute index of the first image record
\* (the cover when present); both are 0xFFFFFFFF when the file has no image.
C4_ImageIndicesEqualFirstImage ==
    Mobi6Done =>
        IF ImageRecordIndices = {}
        THEN /\ FileHeader.FirstImageIndex = NoIndex
             /\ FileHeader.FirstNonBookIndex = NoIndex
        ELSE /\ FileHeader.FirstImageIndex = Least(ImageRecordIndices)
             /\ FileHeader.FirstNonBookIndex = FileHeader.FirstImageIndex

\* ---- C5

\* C5, as the code has it: in record 0 of a MOBI 6 file FirstContentRec is 1
\* and LastContentRec is the index of the record before FLIS, that is the last
\* of the text, TOC INDX and image records.
C5_LastContentRecBeforeFLIS ==
    Mobi6Done =>
        /\ FileHeader.FirstContentRec = 1
        /\ FileHeader.LastContentRec = U16(FileHeader.FLISIndex - 1)
        /\ FileHeader.LastContentRec
               = K + Cardinality(IndicesOf("indx"))
                   + Cardinality(ImageRecordIndices)

\* C5, as stated: in record 0 of a MOBI 6 file with K text records
\* FirstContentRec = 1 and LastContentRec = 1+K-1, the index of the last text
\* record, whatever records follow the text.
C5_LastContentRecIsLastText ==
    Mobi6Done =>
        /\ FileHeader.FirstContentRec = 1
        /\ FileHeader.LastContentRec = 1 + K - 1

\* a finished file with text records, a TOC INDX record and images, whose
\* LastContentRec lies behind the text
C5_Witness ==
    /\ Mobi6Done
    /\ K >= 1
    /\ IndicesOf("indx") # {}
    /\ IndicesOf("image") # {}
    /\ FileHeader.LastContentRec > K

\* ---- C6

\* the number of records of kind k in recs
CountKind(recs, k) == Cardinality({i \in 1..Len(recs) : recs[i].kind = k})

\* the manifest id whose bytes are d
IdOfData(d) == CHOOSE id \in DOMAIN book.Manifest : book.Manifest[id].Data = d

\* the record order of a MOBI 6 file
OrderOK(recs) ==
    LET n == Len(recs)
        indx == IF options.GenerateTOC /\ Len(book.TOC.Children) > 0
                THEN <<"indx">> ELSE <<>>
        cover == IF options.CoverImage.present
                 THEN <<"cover", "thumb">> ELSE <<>>
        firstImage == 1 + CountKind(recs, "text") + Len(indx) + Len(cover)
        images == CountKind(recs, "image")
    IN  /\ [i \in 1..n |-> recs[i].kind]
               = <<"header">>
                   \o [i \in 1..CountKind(recs, "text") |-> "text"]
                   \o indx \o cover
                   \o [i \in 1..images |-> "image"]
                   \o <<"flis", "fcis", "eof">>
        /\ \A i \in 1..CountKind(recs, "text") :
               recs[i + 1].data = w.textRecords[i]
        /\ options.CoverImage.present =>
               /\ recs[firstImage - 1].data = options.CoverImage.data
               /\ recs[firstImage].data = options.CoverImage.data
        /\ \A i \in 1..images :
               /\ \E id \in DOMAIN book.Manifest :
                     /\ isImage(book.Manifest[id])
                     /\ id # book.Metadata.CoverID
                     /\ book.Manifest[id].Data = recs[firstImage + i].data
               /\ i < images =>
                     lessStr(IdOfData(recs[firstImage + i].data),
                             IdOfData(recs[firstImage + i + 1].data))
        /\ recs[n - 2].data = createFLISRecord
        /\ Slice(recs[n - 1].data, 0, 4) = FCISMagic
        /\ recs[n].data = <<0, 0, 0, 0>>

\* a step of the MOBI 6 writer that changes record 0
RewritesRecord0 ==
    /\ w.entry = "mobi6"
    /\ pdb.records # <<>>
    /\ pdb'.records # <<>>
    /\ pdb'.records[1] # pdb.records[1]

\* C6: every MOBI 6 file has its records in this order: the header at 0, the K
\* text records at 1..K, the TOC INDX record if one is produced, the cover and
\* the thumbnail if a cover is present, the manifest images other than the
\* cover id's in sorted id order, FLIS, FCIS, and last the EOF record of four
\* zero bytes, nothing interleaved; and the step that rewrites record 0 is
\* taken only when all of them exist, and changes no other record.
C6_RecordOrder ==
    [][ /\ (w.entry = "mobi6" /\ w'.pc = "done") => OrderOK(output'.records)
        /\ RewritesRecord0 =>
              /\ OrderOK(pdb'.records)
              /\ Tail(pdb'.records) = Tail(pdb.records) ]_vars

\* a finished file that has every kind of record and two manifest images
C6_Witness ==
    /\ Mobi6Done
    /\ K >= 1
    /\ IndicesOf("indx") # {}
    /\ IndicesOf("cover") # {}
    /\ IndicesOf("thumb") # {}
    /\ Cardinality(IndicesOf("image")) >= 2
    /\ FileHeader.FLISIndex = Len(File) - 3

\* ---- C7

\* the uncompressed text of the write
SourceText == IF w.entry = "mobi6" THEN w.resolvedContent ELSE w.kf8Content

\* each text record is the compression of one 4096-byte slice of the text and
\* the header counts them
SlicesCompressed ==
    /\ K = CeilRecords(Len(SourceText))
    /\ FileHeader.RecordCount = K
    /\ \A i \in 1..K :
          /\ RecordAt(i).kind = "text"
          /\ RecordAt(i).data = compressRecord(TextSlice(SourceText, i))

\* C7: in every file of the MOBI 6 writer or the KF8 writer with PalmDOC
\* compression each text record is the independent compression of one
\* consecutive 4096-byte slice of the uncompressed text, so there are
\* ceil(L/4096) text records, the record count of the PalmDOC header.
C7_TextRecordsAreCompressedSlices ==
    ((Mobi6Done \/ JointDone) /\ FileHeader.Compression = PalmDOCCompression)
        => SlicesCompressed

\* the same for the MOBI 6 writer alone
C7_Mobi6TextRecords ==
    (Mobi6Done /\ FileHeader.Compression = PalmDOCCompression)
        => SlicesCompressed

\* ---- C8

\* C8: for every byte string s shorter than 4096 bytes
\* DecompressPalmDOC(CompressPalmDOC(s)) = s.
C8_DecompressInvertsCompress ==
    cdc.pc = "done" => cdc.decompressed = cdc.input

\* ---- C9

\* the bytes of text record i of a MOBI 6 file without its framing
RecordBody(i) ==
    IF FileHeader.Compression = PalmDOCCompression
    THEN compressRecord(TextSlice(SourceText, i))
    ELSE TextSlice(SourceText, i)

\* the last byte of slice i of the text
LastByteOf(i) == TextSlice(SourceText, i)[Len(TextSlice(SourceText, i))]

\* the stream CompressPalmDOC frames: every compressed slice but the last
\* followed by the last byte of the slice
FramedStream ==
    LET n == CeilRecords(Len(SourceText))
    IN  Concat([i \in 1..n |->
                  compressRecord(TextSlice(SourceText, i))
                      \o (IF i < n THEN <<LastByteOf(i)>> ELSE <<>>)])

\* the text records of the file, joined
TextStream == Concat([i \in 1..K |-> RecordAt(i).data])

\* C9, as the code has it: the text records of a MOBI 6 file are the slices of
\* the text (compressed or not) with no overlap byte after any of them, so
\* 4096 bytes give one record and 4097 bytes two; the overlap byte after every
\* slice but the last is appended by CompressPalmDOC only, whose stream the
\* joint writer cuts into its text records.
C9_OverlapOnlyInCompressedStream ==
    /\ Mobi6Done =>
          /\ K = CeilRecords(Len(SourceText))
          /\ \A i \in 1..K : RecordAt(i).data = RecordBody(i)
    /\ JointDone => TextStream = FramedStream

\* C9, as stated: when text is split into text records every non-final record
\* is followed by one overlap byte, the last uncompressed byte of the record,
\* and the final record by none, in the uncompressed case as well.
C9_OverlapAfterNonFinalRecords ==
    Mobi6Done =>
        /\ K = CeilRecords(Len(SourceText))
        /\ \A i \in 1..K :
              RecordAt(i).data
                  = RecordBody(i) \o (IF i < K THEN <<LastByteOf(i)>> ELSE <<>>)

\* a finished uncompressed MOBI 6 file of a text of 4097 bytes, in two records
C9_Witness ==
    /\ Mobi6Done
    /\ FileHeader.Compression = NoCompression
    /\ Len(SourceText) = RecordSize + 1
    /\ K = 2

\* ---- C10

\* C10: MOBIHeader.Write emits 248 bytes, the 16 bytes of the PalmDOC header
\* and the 232 of the MOBI header, with "MOBI" at offset 0x10 and the
\* big-endian 232 at offset 0x14.
C10_HeaderIs248Bytes ==
    hw.pc = "written" =>
        /\ Len(hw.bytes) = 248
        /\ Slice(hw.bytes, 16, 20) = MOBIMarker
        /\ U32At(hw.bytes, 20) = 232

\* the part of it that the code keeps: the marker and the length field
C10_MarkerAndLength ==
    hw.pc = "written" =>
        /\ Len(hw.bytes) = 644
        /\ Slice(hw.bytes, 16, 20) = MOBIMarker
        /\ U32At(hw.bytes, 20) = 232

\* ---- C11

\* the bytes of record 0: createMOBIHeaderRecordExtended writes the header
\* with MOBIHeader.Write, then the EXTH block, then the book name
Record0Bytes == MOBIHeaderWrite(FileHeader) \o File[1].data

\* the book name of the write
BookName == getBookName(book, options)

\* the length of the EXTH block of record 0
EXTHLength == Len(File[1].data) - Len(BookName)

\* C11: in record 0 of a MOBI 6 file FullNameOffset is 248 + |EXTH| (248
\* without an EXTH block) and the bytes of the book name start at that offset
\* of the record, which is laid out as [248-byte header][EXTH][name].
C11_NameAtFullNameOffset ==
    Mobi6Done =>
        /\ FileHeader.FullNameOffset = 248 + EXTHLength
        /\ ~options.WithEXTH => EXTHLength = 0
        /\ Len(Record0Bytes) = FileHeader.FullNameOffset + Len(BookName)
        /\ Slice(Record0Bytes, FileHeader.FullNameOffset,
                 FileHeader.FullNameOffset + Len(BookName)) = BookName

\* the part of it that the code keeps: the value of the field, and the name
\* directly after the EXTH block, which follows the header as Write emits it
C11_FieldAndOrder ==
    Mobi6Done =>
        /\ FileHeader.FullNameOffset = 248 + EXTHLength
        /\ ~options.WithEXTH => EXTHLength = 0
        /\ options.WithEXTH =>
              /\ EXTHLength >= EXTHHeaderLen
              /\ Slice(File[1].data, 0, 4) = EXTHIdentifier
              /\ U32At(File[1].data, 4) = EXTHLength
        /\ Slice(Record0Bytes, Len(MOBIHeaderWrite(FileHeader)) + EXTHLength,
                 Len(Record0Bytes)) = BookName
        /\ Len(BookName) > 0

\* ---- the codec's behaviour

\* the values 0..MaxValue are encoded, and the values around every change of
\* the encoded length
MaxValue == 130

\* the longest raw input of the decoders
MaxVarintLen == 6

VarintValues ==
    {V32(0, n) : n \in 0..MaxValue}
        \cup { V32(0, 16383), V32(0, 16384), V32(1, 4369),
               V32(31, 65535), V32(32, 0), V32(4095, 65535), V32(4096, 0),
               V32(32767, 65535), V32(32768, 0), V32(65535, 65535) }

\* bytes without and with the terminator bit
VarintAlphabet == {1, 127, 129}

RECURSIVE bytesUpTo(_)

bytesUpTo(n) ==
    IF n = 0 THEN {<<>>}
    ELSE LET shorter == bytesUpTo(n - 1)
         IN  shorter \cup {bs \o <<b>> : bs \in shorter, b \in VarintAlphabet}

Orientations == {"forward", "backward"}

VarintInit ==
    /\ \E o \in Orientations :
          \/ \E v \in VarintValues :
                vw = [pc |-> "start", kind |-> "value", orientation |-> o,
                      value |-> v, encoded |-> <<>>,
                      result |-> Decoded(V32Zero, 0, "nil")]
          \/ \E bs \in bytesUpTo(MaxVarintLen) :
                vw = [pc |-> "encoded", kind |-> "bytes", orientation |-> o,
                      value |-> V32Zero, encoded |-> bs,
                      result |-> Decoded(V32Zero, 0, "nil")]
    /\ pdb = NoWriter
    /\ output = NoOutput
    /\ book = IdleBook
    /\ options = IdleOptions
    /\ w = IdleWriter
    /\ cdc = CodecIdle
    /\ hw = HeaderIdle
    /\ ix = IndexIdle
    /\ sk = SkeletonIdle

\* a call of EncodeForward or EncodeBackward
VarintEncode ==
    /\ vw.pc = "start"
    /\ vw' = [vw EXCEPT !.pc = "encoded",
                        !.encoded = IF vw.orientation = "forward"
                                    THEN EncodeForward(vw.value)
                                    ELSE EncodeBackward(vw.value)]
    /\ UNCHANGED <<pdb, output, book, options, w, cdc, hw, ix, sk>>

\* a call of DecodeForward or DecodeBackward
VarintDecode ==
    /\ vw.pc = "encoded"
    /\ vw' = [vw EXCEPT !.pc = "decoded",
                        !.result = IF vw.orientation = "forward"
                                   THEN DecodeForward(vw.encoded)
                                   ELSE DecodeBackward(vw.encoded)]
    /\ UNCHANGED <<pdb, output, book, options, w, cdc, hw, ix, sk>>

VarintNext == VarintEncode \/ VarintDecode

VarintSpec == VarintInit /\ [][VarintNext]_vars

\* ---- C12

\* C12: for every value v of [0, 2^32) and both orientations, decoding the
\* encoding of v returns v, a consumed-byte count equal to the length of the
\* encoding, and no error.
C12_DecodeInvertsEncode ==
    (vw.pc = "decoded" /\ vw.kind = "value") =>
        vw.result = Decoded(vw.value, Len(vw.encoded), "nil")

\* the greatest value, 0xFFFFFFFF, decoded from its five bytes
C12_Witness ==
    /\ vw.pc = "decoded"
    /\ vw.kind = "value"
    /\ vw.value = V32(65535, 65535)
    /\ Len(vw.encoded) = 5
    /\ vw.result.n = 5

\* ---- C13

\* the bytes a decoder reads first: the input, or its reversal
ReadOrder ==
    IF vw.orientation = "forward" THEN vw.encoded ELSE reverse(vw.encoded)

\* more than 5 bytes are read without a terminator among the first 5
Unterminated ==
    /\ Len(ReadOrder) > 5
    /\ \A i \in 1..5 : ReadOrder[i] < 128

\* C13: DecodeForward and DecodeBackward fail with the underflow error on
\* empty input and with the overflow error whenever more than 5 bytes are
\* consumed without reaching a byte with the terminator bit 0x80; no value is
\* returned for such input.
C13_UnderflowAndOverflow ==
    (vw.pc = "decoded" /\ vw.kind = "bytes") =>
        /\ vw.encoded = <<>> => vw.result.err = "ErrUnderflow"
        /\ Unterminated => vw.result.err = "ErrOverflow"

\* the part of it that the code keeps: the underflow error on empty input,
\* and no other error on any input
C13_UnderflowOnly ==
    (vw.pc = "decoded" /\ vw.kind = "bytes") =>
        /\ vw.encoded = <<>> => vw.result = Decoded(V32Zero, 0, "ErrUnderflow")
        /\ vw.encoded # <<>> => vw.result.err = "nil"

\* ---- the builder's behaviour

\* the most entries added to a builder
MaxEntries == 3

\* the deepest of the small levels of an entry
MaxLevel == 1

\* the levels AddEntry is called with: the small ones and 0xFFFFFFFF
Levels == (0..MaxLevel) \cup {NoIndex}

\* offsets in the first and in the second text record, and 0xFFFFFFFF
EntryOffsets == {0, 3, NoIndex}

\* `<p id="a">`, `x<a id='b'>` and `<p id="b" id="a">` for
\* CalculateOffsetsFromHTML
IndexHTMLs ==
    { <<60, 112, 32, 105, 100, 61, 34, 97, 34, 62>>,
      <<120, 60, 97, 32, 105, 100, 61, 39, 98, 39, 62>>,
      <<60, 112, 32, 105, 100, 61, 34, 98, 34, 32, 105, 100, 61, 34, 97, 34, 62>> }

\* text records for SetTextRecords: none, and two records of two bytes
IndexTextRecords == { <<>>, <<<<120, 121>>, <<122, 119>>>> }

IndexInit ==
    /\ \E records \in IndexTextRecords :
          ix = [pc |-> "adding",
                builder |-> SetTextRecords(NewTOCIndexBuilder, records),
                indx |-> NewINDX(0),
                bytes |-> <<>>,
                sorted |-> FALSE]
    /\ pdb = NoWriter
    /\ output = NoOutput
    /\ book = IdleBook
    /\ options = IdleOptions
    /\ w = IdleWriter
    /\ cdc = CodecIdle
    /\ hw = HeaderIdle
    /\ vw = VarintIdle
    /\ sk = SkeletonIdle

\* a call of TOCIndexBuilder.AddEntry
IndexAddEntry ==
    /\ ix.pc = "adding"
    /\ Len(ix.builder.entries) < MaxEntries
    /\ \E level \in Levels, offset \in EntryOffsets :
          ix' = [ix EXCEPT !.builder =
                    TOCAddEntry(@, TOCEntry.Label, TOCEntry.Href, level, offset)]
    /\ UNCHANGED <<pdb, output, book, options, w, cdc, hw, vw, sk>>

\* a call of SortTOC on the slice GetEntries returns, the builder's own
IndexSortTOC ==
    /\ ix.pc = "adding"
    /\ ix' = [ix EXCEPT !.builder.entries = SortTOC(@), !.sorted = TRUE]
    /\ UNCHANGED <<pdb, output, book, options, w, cdc, hw, vw, sk>>

\* a call of TOCIndexBuilder.CalculateOffsetsFromHTML
IndexOffsetsFromHTML ==
    /\ ix.pc = "adding"
    /\ \E html \in IndexHTMLs :
          /\ Len(CalculateOffsetsFromHTML(ix.builder, html).entries) <= MaxEntries
          /\ ix' = [ix EXCEPT !.builder = CalculateOffsetsFromHTML(@, html)]
    /\ UNCHANGED <<pdb, output, book, options, w, cdc, hw, vw, sk>>

\* a call of TOCIndexBuilder.Build
IndexBuild ==
    /\ ix.pc = "adding"
    /\ ix' = [ix EXCEPT !.pc = "built", !.indx = Build(ix.builder),
                        !.builder.indx = Build(ix.builder)]
    /\ UNCHANGED <<pdb, output, book, options, w, cdc, hw, vw, sk>>

\* a call of INDX.Encode on the built INDX, which is the builder's own: the
\* header update shows in both
IndexEncode ==
    /\ ix.pc = "built"
    /\ ix' = [ix EXCEPT !.pc = "encoded",
                        !.indx.Header = encodedHeader(ix.indx),
                        !.builder.indx.Header = encodedHeader(ix.indx),
                        !.bytes = INDXEncode(ix.indx)]
    /\ UNCHANGED <<pdb, output, book, options, w, cdc, hw, vw, sk>>

IndexNext ==
    IndexAddEntry \/ IndexSortTOC \/ IndexOffsetsFromHTML \/ IndexBuild \/ IndexEncode

IndexSpec == IndexInit /\ [][IndexNext]_vars

\* ---- C14

\* the entries of the builder, and entry i (0-based)
Entries == ix.builder.entries
EntryAt(i) == Entries[i + 1]

\* p is -1 with no earlier entry of a lower level than entry i, or the latest
\* earlier entry of a lower level; levels are uint32 values
IsLatestLower(p, i) ==
    \/ /\ p = -1
       /\ \A j \in 0..(i - 1) : ~ult32(EntryAt(j).Level, EntryAt(i).Level)
    \/ /\ p \in 0..(i - 1)
       /\ ult32(EntryAt(p).Level, EntryAt(i).Level)
       /\ \A j \in (p + 1)..(i - 1) : ~ult32(EntryAt(j).Level, EntryAt(i).Level)

\* the ParentIndex of each entry is -1 or the index of the latest earlier
\* entry of a strictly lower level, and a built INDX carries that value (as
\* a uint32) in tag 4 of the entry
ParentsAreLatestLower ==
    /\ \A i \in 0..(Len(Entries) - 1) :
          IsLatestLower(EntryAt(i).ParentIndex, i)
    /\ ix.pc \in {"built", "encoded"} =>
          /\ Len(ix.indx.IDXT) = Len(Entries)
          /\ \A i \in 0..(Len(Entries) - 1) :
                /\ ix.indx.IDXT[i + 1].TagValues[4]
                       = <<EntryAt(i).ParentIndex>>
                /\ IsLatestLower(ix.indx.IDXT[i + 1].TagValues[4][1], i)

C14_HoldsInOrderAdded == (ix.pc # "idle" /\ ~ix.sorted) => ParentsAreLatestLower

\* every call of AddEntry, before or after SortTOC, gives the new entry the
\* latest entry of a lower level that the slice holds at the time
C14_AddEntryTakesLatestLower ==
    [][Len(ix'.builder.entries) = Len(ix.builder.entries) + 1 =>
          LET es == ix'.builder.entries
              n == Len(es)
              p == es[n].ParentIndex
          IN  \/ /\ p = -1
                 /\ \A j \in 1..(n - 1) : ~ult32(es[j].Level, es[n].Level)
              \/ /\ p \in 0..(n - 2)
                 /\ ult32(es[p + 1].Level, es[n].Level)
                 /\ \A j \in (p + 2)..(n - 1) : ~ult32(es[j].Level, es[n].Level)]_vars

\* a built INDX always carries the ParentIndex of each entry in tag 4
C14_INDXCarriesParentIndex ==
    ix.pc \in {"built", "encoded"} =>
        /\ Len(ix.indx.IDXT) = Len(Entries)
        /\ \A i \in 0..(Len(Entries) - 1) :
              ix.indx.IDXT[i + 1].TagValues[4] = <<EntryAt(i).ParentIndex>>

\* a built INDX of three entries in the order added: a root, an entry of
\* level 0xFFFFFFFF below it, and an entry of level 1 whose parent is the
\* root, not the entry just before it
C14_InOrderAddedReached ==
    /\ ix.pc = "built"
    /\ ~ix.sorted
    /\ Len(Entries) = 3
    /\ EntryAt(0).ParentIndex = -1
    /\ EntryAt(1).Level = NoIndex
    /\ EntryAt(1).ParentIndex = 0
    /\ EntryAt(2).ParentIndex = 0
    /\ ix.indx.IDXT[3].TagValues[4] = <<0>>

\* an INDX built after SortTOC whose first entry names itself as its parent
C14_SortedParentIsItself ==
    /\ ix.pc = "built"
    /\ ix.sorted
    /\ Len(Entries) = 2
    /\ EntryAt(0).Level = 1
    /\ EntryAt(0).ParentIndex = 0
    /\ ix.indx.IDXT[1].TagValues[4] = <<0>>

\* ---- C15

\* the bytes of the TAGX block of the encoded INDX
TAGXBytes == TAGXEncode(ix.indx.TAGX)

\* C15: INDX.Encode writes a header of exactly 192 bytes: the TAGX block
\* begins at byte 192 of the record, the value of TagxOffset, the header
\* length field is 192, and the data after TAGX begins at byte
\* IndexOffset = 192 + |TAGX|.
C15_HeaderIs192Bytes ==
    ix.pc = "encoded" =>
        /\ U32At(ix.bytes, 0) = 192
        /\ ix.indx.Header.HeaderLength = 192
        /\ Slice(ix.bytes, 192, 192 + Len(TAGXBytes)) = TAGXBytes
        /\ ix.indx.Header.IndexOffset = 192 + Len(TAGXBytes)
        /\ Slice(ix.bytes, 192 + Len(TAGXBytes), Len(ix.bytes))
               = encodeCNCX(ix.indx.CNCX)
                   \o Concat([k \in 1..Len(ix.indx.IDXT) |->
                                 encodeIDXTEntry(ix.indx, ix.indx.IDXT[k])])

\* what the code writes: the stored offsets are those of a 192-byte header
\* while 272 bytes are written before the TAGX block
C15_HeaderIs272Bytes ==
    ix.pc = "encoded" =>
        /\ U32At(ix.bytes, 0) = 192
        /\ U32At(ix.bytes, 8) = 192
        /\ U32At(ix.bytes, 20) = 192 + Len(TAGXBytes)
        /\ Len(writeHeader(ix.indx.Header)) = 272
        /\ Slice(ix.bytes, 272, 272 + Len(TAGXBytes)) = TAGXBytes

\* ------------------------------------------------- KF8 skeleton (chunker)

TargetChunkSize == 8192
MaxChunkSize == 10240
MinChunkSize == 6144

\* the byte classes of the tag pattern: [a-zA-Z], [a-zA-Z0-9] and \s
isLetter(b) == (b >= 65 /\ b <= 90) \/ (b >= 97 /\ b <= 122)
isAlnum(b) == isLetter(b) \/ (b >= 48 /\ b <= 57)
isSpace(b) == b \in {9, 10, 12, 13, 32}

\* strings.ToLower on ASCII bytes
toLower(name) == [i \in 1..Len(name) |-> IF name[i] >= 65 /\ name[i] <= 90 THEN name[i] + 32 ELSE name[i]]

\* strings.Index(html[p:], ">") + p: the first '>' at or after p (-1: none)
firstGT(html, p) ==
    LET gts == {q \in p..(Len(html) - 1) : At(html, q) = 62}
    IN  IF gts = {} THEN -1 ELSE CHOOSE q \in gts : \A r \in gts : q <= r

RECURSIVE nameEnd(_, _)
\* the end of the run [a-zA-Z0-9]* that starts at p
nameEnd(html, p) ==
    IF p < Len(html) /\ isAlnum(At(html, p)) THEN nameEnd(html, p + 1) ELSE p

\* <(/?)([a-zA-Z][a-zA-Z0-9]*)(?:\s[^>]*)?(/?)> matched at p: the submatch
\* indices FindAllStringSubmatchIndex reports, match[0..5] (ok: a match)
tagMatch(html, p) ==
    LET n == Len(html)
        slash == p + 1 < n /\ At(html, p + 1) = 47
        a == IF slash THEN p + 2 ELSE p + 1
        e == nameEnd(html, a)
        gt == firstGT(html, e)
        stop == IF e < n /\ At(html, e) = 62 THEN e + 1
                ELSE IF e + 1 < n /\ At(html, e) = 47 /\ At(html, e + 1) = 62 THEN e + 2
                ELSE IF e < n /\ isSpace(At(html, e)) /\ gt >= 0 THEN gt + 1
                ELSE -1
    IN  IF p < n /\ At(html, p) = 60 /\ a < n /\ isLetter(At(html, a)) /\ stop > 0
        THEN [ok |-> TRUE, m |-> <<p, stop, p + 1, a, a, e>>]
        ELSE [ok |-> FALSE, m |-> <<>>]

\* one tag position
TagPosition(tag, position, isOpen, selfClose) == [Tag |-> tag, Position |-> position, IsOpen |-> isOpen, SelfClose |-> selfClose]

\* the body of the loop of parseHTMLTags for one match: the name is read from
\* match[2:3] (the optional slash) and the slash is looked for at match[4]
\* (the first byte of the name)
tagOfMatch(html, m) ==
    LET tagName == Slice(html, m[3], m[4])
        isClose == m[5] # m[6] /\ m[5] >= 0 /\ At(html, m[5]) = 47
        selfClose == m[5] # m[6] /\ m[5] >= 0 /\ At(html, m[5]) = 47
    IN  TagPosition(toLower(tagName), m[1], ~isClose /\ ~selfClose, selfClose)

RECURSIVE tagsFrom(_, _, _)
\* the matches at the candidate starts lts (in ascending order) that begin at
\* or after from: the matches are taken left to right and do not overlap
tagsFrom(html, lts, from) ==
    IF lts = <<>> THEN <<>>
    ELSE LET p == Head(lts)
             t == tagMatch(html, p)
         IN  IF p >= from /\ t.ok
             THEN <<tagOfMatch(html, t.m)>> \o tagsFrom(html, Tail(lts), t.m[2])
             ELSE tagsFrom(html, Tail(lts), from)

RECURSIVE ascending(_)
\* the elements of a set of numbers in ascending order
ascending(S) ==
    IF S = {} THEN <<>>
    ELSE LET x == CHOOSE y \in S : \A z \in S : y <= z
         IN  <<x>> \o ascending(S \ {x})

\* parseHTMLTags
parseHTMLTags(html) ==
    tagsFrom(html, ascending({p \in 0..(Len(html) - 1) : At(html, p) = 60}), 0)

abs(x) == IF x < 0 THEN 0 - x ELSE x

RECURSIVE breakScan(_, _, _, _, _, _, _)
\* the loop of findBreakPoint from position index k on
breakScan(html, start, end, positions, k, bestBreak, minDistance) ==
    IF k > Len(positions) THEN bestBreak
    ELSE LET pos == positions[k]
             distance == abs(pos.Position - end)
             tagEnd == firstGT(html, pos.Position)
         IN  IF pos.Position < start
             THEN breakScan(html, start, end, positions, k + 1, bestBreak, minDistance)
             ELSE IF pos.Position > end + MinChunkSize THEN bestBreak
             ELSE IF ~pos.IsOpen /\ ~pos.SelfClose /\ (bestBreak = end \/ distance < minDistance)
             THEN breakScan(html, start, end, positions, k + 1,
                            IF tagEnd >= 0 THEN tagEnd + 1 ELSE Len(html), distance)
             ELSE breakScan(html, start, end, positions, k + 1, bestBreak, minDistance)

\* a variant of findBreakPoint whose lower clamp is one byte short and is
\* applied to every break
findBreakPointShort(html, start, end, positions) ==
    IF end >= Len(html) THEN Len(html) ELSE start + MinChunkSize - 1

\* findBreakPoint (the openTags parameter is not read)
findBreakPoint(html, start, end, positions) ==
    IF end >= Len(html) THEN Len(html)
    ELSE LET bestBreak == breakScan(html, start, end, positions, 1, end, 0)
         IN  IF bestBreak < start + MinChunkSize /\ bestBreak < Len(html)
             THEN start + MinChunkSize
             ELSE IF bestBreak > start + MaxChunkSize THEN start + MaxChunkSize
             ELSE bestBreak

AIDBase32 == <<48, 49, 50, 51, 52, 53, 54, 55, 56, 57, 97, 98, 99, 100, 101, 102, 103, 104, 105, 106, 107, 108, 109, 110, 111, 112, 113, 114, 115, 116, 117, 118, 119, 120, 121, 122>>

RECURSIVE base32Digits(_)
\* the digits of n > 0, most significant first
base32Digits(n) ==
    IF n = 0 THEN <<>>
    ELSE base32Digits(n \div Len(AIDBase32)) \o <<AIDBase32[(n % Len(AIDBase32)) + 1]>>

\* encodeBase32
encodeBase32(n) == IF n = 0 THEN <<48>> ELSE base32Digits(n)

\* NewSkeleton
NewSkeleton == [Chunks |-> <<>>, TotalLength |-> 0, MaxDepth |-> 0, AIDCounter |-> 0]

NoParent == -1

\* the chunk ChunkHTML creates for html[currentOffset:breakPoint]; Parent
\* and Children hold chunk IDs
NewChunk(s, html, currentOffset, breakPoint, tags) ==
    [ID |-> Len(s.Chunks),
     AID |-> encodeBase32(s.AIDCounter),
     Offset |-> currentOffset,
     Length |-> breakPoint - currentOffset,
     Content |-> Slice(html, currentOffset, breakPoint),
     Parent |-> NoParent,
     Children |-> <<>>,
     OpenTags |-> SelectSeq(tags, LAMBDA t : t.IsOpen),
     CloseTags |-> SelectSeq(tags, LAMBDA t : ~t.IsOpen)]

RECURSIVE chunkLoop(_, _, _, _, _)
\* the loop of ChunkHTML from currentOffset on (the openTags map is written
\* but never read)
chunkLoop(s, html, tagPositions, currentOffset, depth) ==
    IF currentOffset >= Len(html) THEN s
    ELSE LET endOffset == IF currentOffset + TargetChunkSize > Len(html) THEN Len(html)
                          ELSE currentOffset + TargetChunkSize
             breakPoint == findBreakPoint(html, currentOffset, endOffset, tagPositions)
             tags == SelectSeq(tagPositions,
                        LAMBDA t : t.Position >= currentOffset /\ t.Position < breakPoint)
             chunk == NewChunk(s, html, currentOffset, breakPoint, tags)
             newDepth == depth + Len(chunk.OpenTags) - Len(chunk.CloseTags)
         IN  chunkLoop([s EXCEPT !.Chunks = Append(@, chunk),
                                 !.AIDCounter = @ + 1,
                                 !.MaxDepth = IF newDepth > @ THEN newDepth ELSE @],
                       html, tagPositions, breakPoint, newDepth)

\* a variant of ChunkHTML whose loop runs once more at currentOffset =
\* len(html) and appends an empty chunk
ChunkHTMLWithEmptyTail(s, html) ==
    LET done == chunkLoop(s, html, parseHTMLTags(html), 0, 0)
    IN  [done EXCEPT !.Chunks = Append(@, NewChunk(done, html, Len(html), Len(html), <<>>)),
                     !.AIDCounter = @ + 1,
                     !.TotalLength = Len(html)]

\* Skeleton.ChunkHTML
ChunkHTML(s, html) ==
    [chunkLoop(s, html, parseHTMLTags(html), 0, 0) EXCEPT !.TotalLength = Len(html)]

\* the chunk BuildHierarchy makes the parent of chunk i: the nearest earlier
\* chunk with fewer tags left open than chunk i opens (NoParent: none found)
parentOf(chunks, i) ==
    LET depth == Len(chunks[i].OpenTags)
        found == {j \in 1..(i - 1) : Len(chunks[j].OpenTags) - Len(chunks[j].CloseTags) < depth}
    IN  IF found = {} THEN NoParent ELSE (CHOOSE j \in found : \A o \in found : j >= o) - 1

\* Skeleton.BuildHierarchy: every chunk is visited in order, the chunk gets
\* its parent and is appended to the parent's children
BuildHierarchy(s) ==
    LET chunks == s.Chunks
        childrenOf(j) == SelectSeq([i \in 1..Len(chunks) |-> i - 1], LAMBDA c : parentOf(chunks, c + 1) = j - 1)
    IN  [s EXCEPT !.Chunks =
            [j \in 1..Len(chunks) |->
                [chunks[j] EXCEPT !.Parent = IF parentOf(chunks, j) # NoParent THEN parentOf(chunks, j) ELSE @,
                                  !.Children = @ \o childrenOf(j)]]]

\* strings.Index(c[p:], <<b>>) + p: the first byte b at or after p (-1: none)
indexByteFrom(c, p, b) ==
    LET hits == {q \in p..(Len(c) - 1) : At(c, q) = b}
    IN  IF hits = {} THEN -1 ELSE CHOOSE q \in hits : \A r \in hits : q <= r


\* "</", "<!DOCTYPE", "<!--", "<?xml", ` aid="` and `"`
CloseTagPrefix == <<60, 47>>
DoctypePrefix == <<60, 33, 68, 79, 67, 84, 89, 80, 69>>
CommentPrefix == <<60, 33, 45, 45>>
XMLDeclPrefix == <<60, 63, 120, 109, 108>>
AidAttrOpen == <<32, 97, 105, 100, 61, 34>>
AidAttrClose == <<34>>

\* the body of the loop of AssignAIDAttributes: the content of one chunk with
\* the aid attribute inserted
aidContent(chunk) ==
    LET content == chunk.Content
        tagStart == indexByteFrom(content, 0, 60)
        space == indexByteFrom(content, tagStart, 32)
        tagEnd == IF space >= 0 THEN space - tagStart ELSE indexByteFrom(content, tagStart, 62) - tagStart
        insertPos == tagStart + tagEnd
    IN  IF /\ tagStart >= 0
           /\ ~hasPrefixAt(content, tagStart, CloseTagPrefix)
           /\ ~hasPrefixAt(content, tagStart, DoctypePrefix)
           /\ ~hasPrefixAt(content, tagStart, CommentPrefix)
           /\ ~hasPrefixAt(content, tagStart, XMLDeclPrefix)
           /\ tagEnd > 0
        THEN Slice(content, 0, insertPos) \o AidAttrOpen \o chunk.AID \o AidAttrClose
                 \o Slice(content, insertPos, Len(content))
        ELSE content

\* Skeleton.AssignAIDAttributes
AssignAIDAttributes(s) == Concat([k \in 1..Len(s.Chunks) |-> aidContent(s.Chunks[k])])

\* ---- FDST (flow division table)

\* NewFDST
NewFDST == [NumEntries |-> 0, Entries |-> <<>>]

\* FDST.AddEntry
FDSTAddEntry(f, start, end) ==
    [f EXCEPT !.Entries = Append(@, [Start |-> start, End |-> end]), !.NumEntries = U32(@ + 1)]

\* FDST.AddChunk
AddChunk(f, chunk) == FDSTAddEntry(f, U32(chunk.Offset), add32(chunk.Offset, chunk.Length))

RECURSIVE addChunksFrom(_, _, _)
\* the loop of GenerateFromSkeleton from chunk k on
addChunksFrom(f, chunks, k) ==
    IF k > Len(chunks) THEN f ELSE addChunksFrom(AddChunk(f, chunks[k]), chunks, k + 1)

\* FDST.GenerateFromSkeleton
GenerateFromSkeleton(f, skeleton) == addChunksFrom(f, skeleton.Chunks, 1)

FlowTypeHTML == 0

\* "primary"
PrimaryFlowID == <<112, 114, 105, 109, 97, 114, 121>>

\* NewFlowManager (the flows in creation order)
NewFlowManager == <<>>

\* FlowManager.CreateFlow
CreateFlow(flows, id, flowType, content) ==
    Append(flows, [ID |-> id, Type |-> flowType, Content |-> content, Index |-> Len(flows), Resources |-> <<>>])

RECURSIVE addFlowsFrom(_, _, _, _)
\* the loop of GenerateFromFlows from flow k on, with the running offset
addFlowsFrom(f, flows, k, offset) ==
    IF k > Len(flows) THEN f
    ELSE LET end == add32(offset, Len(flows[k].Content))
         IN  addFlowsFrom(FDSTAddEntry(f, offset, end), flows, k + 1, end)

\* FDST.GenerateFromFlows on the flows of a manager (GetFlows)
GenerateFromFlows(f, flows) == addFlowsFrom(f, flows, 1, 0)

RECURSIVE mergeFrom(_, _, _, _)
\* the loop of MergeEntries from entry i on: current joins the last merged
\* entry when current.Start - last.End (uint32) is at most maxGap
mergeFrom(entries, i, merged, maxGap) ==
    IF i > Len(entries) THEN merged
    ELSE LET last == merged[Len(merged)]
             current == entries[i]
         IN  mergeFrom(entries, i + 1,
                 IF ~ult32(maxGap, sub32(current.Start, last.End))
                 THEN [merged EXCEPT ![Len(merged)].End = current.End]
                 ELSE Append(merged, current),
                 maxGap)

\* FDST.MergeEntries
MergeEntries(f, maxGap) ==
    IF Len(f.Entries) <= 1 THEN f
    ELSE LET merged == mergeFrom(f.Entries, 2, <<f.Entries[1]>>, maxGap)
         IN  [f EXCEPT !.Entries = merged, !.NumEntries = U32(Len(merged))]

\* the errors of FDST.Validate, with the index of the entry they name
ValidateOK == <<"nil", 0>>
ErrOverlap(i) == <<"FDST entries overlap", i>>
ErrStartNotBeforeEnd(i) == <<"FDST entry has start >= end", i>>

\* a variant of Validate that checks the order of adjacent entries only
ValidateOrderOnly(f) ==
    LET es == f.Entries
        overlaps == {i \in 1..(Len(es) - 1) : ult32(es[i + 1].Start, es[i].End)}
    IN  IF overlaps # {} THEN ErrOverlap((CHOOSE i \in overlaps : \A o \in overlaps : i <= o) - 1)
        ELSE ValidateOK

\* FDST.Validate: the first loop over adjacent entries, then the second loop
\* over single entries; Start and End are compared as uint32
Validate(f) ==
    LET es == f.Entries
        overlaps == {i \in 1..(Len(es) - 1) : ult32(es[i + 1].Start, es[i].End)}
        inverted == {i \in 1..Len(es) : ~ult32(es[i].Start, es[i].End)}
    IN  IF overlaps # {} THEN ErrOverlap((CHOOSE i \in overlaps : \A o \in overlaps : i <= o) - 1)
        ELSE IF inverted # {} THEN ErrStartNotBeforeEnd((CHOOSE i \in inverted : \A o \in inverted : i <= o) - 1)
        ELSE ValidateOK

\* ---- the chunker and the FDST driven through their own calls

\* the calls of ChunkHTML made on one skeleton
MaxChunkCalls == 2
\* the calls of GenerateFromSkeleton made on one FDST
MaxGenerateCalls == 2

\* the tags placed in the inputs: "<p>" at 0, "</p>" at 7000 (inside the
\* window of the first break) and "</div>" at 9000
InputTags == {[at |-> 0, bytes |-> <<60, 112, 62>>], [at |-> 7000, bytes |-> <<60, 47, 112, 62>>], [at |-> 9000, bytes |-> <<60, 47, 100, 105, 118, 62>>]}

\* an input of n bytes: the filler byte "x", with those of the tags that fit
HtmlOf(n, tags) ==
    [i \in 1..n |->
        IF \E t \in tags : t.at + Len(t.bytes) <= n /\ i > t.at /\ i <= t.at + Len(t.bytes)
        THEN LET t == CHOOSE u \in tags : u.at + Len(u.bytes) <= n /\ i > u.at /\ i <= u.at + Len(u.bytes)
             IN  t.bytes[i - t.at]
        ELSE 120]

\* the inputs: empty, "<p>xx", one byte less than the minimum chunk size
\* without tags, and one byte more than two target sizes with tags
HtmlInputs == {HtmlOf(0, {}), HtmlOf(5, InputTags), HtmlOf(MinChunkSize - 1, {}), HtmlOf(2 * TargetChunkSize + 1, InputTags)}

\* the FDST record of a write call that wrote none
NoRecord == <<>>

\* DefaultKF8WriteOptions, as far as the skeleton and the FDST go
DefaultKF8WriteOptions == [EnableChunking |-> TRUE, GenerateFDST |-> TRUE]

\* the options SetOptions may give a writer
KF8WriteOptions == [EnableChunking : BOOLEAN, GenerateFDST : BOOLEAN]

\* the skeleton and the FDST are driven either through their own calls
\* (owner "caller") or by a KF8Writer, which creates one of each in
\* NewKF8Writer and keeps them, and its options, for all its write calls
\* (owner "writer")
SkeletonInit ==
    /\ \E owner \in {"caller", "writer"}, opts \in KF8WriteOptions :
          sk = [pc |-> "skeleton",
                owner |-> owner,
                options |-> IF owner = "writer" THEN opts ELSE DefaultKF8WriteOptions,
                skeleton |-> NewSkeleton,
                fdst |-> NewFDST,
                html |-> <<>>,
                first |-> 0,
                calls |-> 0,
                generates |-> 0,
                last |-> "new",
                content |-> <<>>,
                record |-> NoRecord]
    /\ pdb = NoWriter
    /\ output = NoOutput
    /\ book = IdleBook
    /\ options = IdleOptions
    /\ w = IdleWriter
    /\ cdc = CodecIdle
    /\ hw = HeaderIdle
    /\ vw = VarintIdle
    /\ ix = IndexIdle

\* a call of Skeleton.ChunkHTML; first keeps the number of chunks the
\* skeleton held before the call
SkeletonChunkHTML ==
    /\ sk.pc = "skeleton" /\ sk.owner = "caller"
    /\ sk.calls < MaxChunkCalls
    /\ \E html \in HtmlInputs :
          sk' = [sk EXCEPT !.skeleton = ChunkHTML(@, html),
                           !.html = html,
                           !.first = Len(sk.skeleton.Chunks),
                           !.calls = @ + 1,
                           !.last = "ChunkHTML"]
    /\ UNCHANGED <<pdb, output, book, options, w, cdc, hw, vw, ix>>

\* a call of FDST.GenerateFromSkeleton
SkeletonGenerate ==
    /\ sk.pc = "skeleton" /\ sk.owner = "caller"
    /\ sk.generates < MaxGenerateCalls
    /\ sk' = [sk EXCEPT !.fdst = GenerateFromSkeleton(@, sk.skeleton),
                        !.generates = @ + 1,
                        !.last = "GenerateFromSkeleton"]
    /\ UNCHANGED <<pdb, output, book, options, w, cdc, hw, vw, ix>>

\* the skeleton of the writer after step 1 of a write call on originalContent
preparedSkeleton(skeleton, enableChunking, originalContent) ==
    IF enableChunking THEN BuildHierarchy(ChunkHTML(skeleton, originalContent)) ELSE skeleton

\* kf8Content of step 1
preparedContent(skeleton, enableChunking, originalContent) ==
    IF enableChunking
    THEN AssignAIDAttributes(preparedSkeleton(skeleton, enableChunking, originalContent))
    ELSE originalContent

\* the FDST of the writer after step 1
preparedFDST(fdst, skeleton, enableChunking, generateFDST, originalContent) ==
    IF enableChunking /\ generateFDST
    THEN GenerateFromSkeleton(fdst, preparedSkeleton(skeleton, enableChunking, originalContent))
    ELSE fdst

\* a call of KF8Writer.WriteJointFile, as it acts on the skeleton and the FDST
\* of the writer: step 1 chunks the content, builds the hierarchy, assigns the
\* aid attributes and generates the FDST; step 4 writes the FDST into a
\* record.  The other records of the file are those of the joint actions.
SkeletonWriteJointFile ==
    /\ sk.pc = "skeleton" /\ sk.owner = "writer"
    /\ sk.calls < MaxChunkCalls
    /\ \E originalContent \in HtmlInputs :
          LET enableChunking == sk.options.EnableChunking
              generateFDST == sk.options.GenerateFDST
              fdst == preparedFDST(sk.fdst, sk.skeleton, enableChunking, generateFDST, originalContent)
          IN  sk' = [sk EXCEPT
                        !.skeleton = preparedSkeleton(@, enableChunking, originalContent),
                        !.fdst = fdst,
                        !.html = originalContent,
                        !.first = IF enableChunking THEN Len(sk.skeleton.Chunks) ELSE @,
                        !.calls = @ + 1,
                        !.last = IF enableChunking THEN "WriteJointFile chunked" ELSE "WriteJointFile",
                        !.content = preparedContent(sk.skeleton, enableChunking, originalContent),
                        !.record = IF generateFDST THEN FDSTWrite(fdst.Entries) ELSE NoRecord]
    /\ UNCHANGED <<pdb, output, book, options, w, cdc, hw, vw, ix>>

SkeletonNext == SkeletonChunkHTML \/ SkeletonGenerate \/ SkeletonWriteJointFile

SkeletonSpec == SkeletonInit /\ [][SkeletonNext]_vars

\* ---- C16

\* the latest call was ChunkHTML, made by the caller or by the writer
AfterChunkHTML == sk.pc = "skeleton" /\ sk.last \in {"ChunkHTML", "WriteJointFile chunked"}

\* the chunks of the skeleton, and those the latest call of ChunkHTML appended
Chunks == sk.skeleton.Chunks
Appended == SubSeq(Chunks, sk.first + 1, Len(Chunks))

\* cs are contiguous byte ranges that partition html
Partitions(cs, html) ==
    /\ cs # <<>> => cs[1].Offset = 0
    /\ \A k \in 2..Len(cs) : cs[k].Offset = cs[k - 1].Offset + cs[k - 1].Length
    /\ \A k \in 1..Len(cs) : cs[k].Length > 0
    /\ cs # <<>> => cs[Len(cs)].Offset + cs[Len(cs)].Length = Len(html)
    /\ Concat([k \in 1..Len(cs) |-> cs[k].Content]) = html

\* C16: after ChunkHTML(html) the skeleton's chunks are contiguous byte
\* ranges that partition the input: the first has offset 0, each later one
\* starts where the previous one ends, every length is positive, the last one
\* ends at len(html), and the contents concatenated in order give html.
C16_ChunksPartitionInput ==
    AfterChunkHTML => Partitions(Chunks, sk.html)

\* what ChunkHTML does keep: the chunks one call appends partition its input
C16_AppendedChunksPartitionInput ==
    AfterChunkHTML => Partitions(Appended, sk.html)

\* ---- C17

\* C17: every chunk a call of ChunkHTML produces, other than the final chunk
\* of its input, is between 6144 and 10240 bytes long.
C17_NonFinalChunkLengthInBounds ==
    AfterChunkHTML =>
        \A k \in 1..(Len(Appended) - 1) :
            Appended[k].Length >= MinChunkSize /\ Appended[k].Length <= MaxChunkSize

\* a call on a skeleton that already held chunks has produced three chunks,
\* two of them not final, from an input with closing tags inside the window
C17_Witness ==
    /\ AfterChunkHTML
    /\ sk.first > 0
    /\ Len(Appended) = 3
    /\ \E q \in (MinChunkSize + 1)..(MaxChunkSize - 1) : Slice(sk.html, q, q + 2) = <<60, 47>>

\* ---- C18

\* the latest call of ChunkHTML was given an input shorter than 6144 bytes
ShortInputChunked == AfterChunkHTML /\ Len(sk.html) < MinChunkSize

\* C18 as stated: ChunkHTML applied to any input shorter than 6144 bytes
\* produces exactly one chunk.
C18_ShortInputGivesOneChunk == ShortInputChunked => Len(Appended) = 1

\* C18: ChunkHTML applied to an input of 1 to 6143 bytes produces exactly one
\* chunk, which holds the whole input; applied to the empty input it produces
\* no chunk.
C18_NonEmptyShortInputGivesOneChunk ==
    ShortInputChunked =>
        IF sk.html = <<>> THEN Appended = <<>>
        ELSE /\ Len(Appended) = 1
             /\ Appended[1].Offset = 0
             /\ Appended[1].Content = sk.html

\* an input of 6143 bytes has been chunked by a skeleton that held chunks
C18_Witness ==
    /\ ShortInputChunked
    /\ Len(sk.html) = MinChunkSize - 1
    /\ sk.first > 0
    /\ Len(Appended) = 1

\* the empty input has been chunked
C18_EmptyInputChunked == ShortInputChunked /\ sk.html = <<>> /\ Appended = <<>>

\* ---- C19

\* the entries an FDST record holds
RecordEntries(record) ==
    [k \in 1..U32At(record, 8) |->
        [Start |-> U32At(record, FDSTHeaderLen + 8 * (k - 1)),
         End |-> U32At(record, FDSTHeaderLen + 8 * (k - 1) + 4)]]

\* one entry per chunk of cs
EntriesOf(cs) == [k \in 1..Len(cs) |-> [Start |-> cs[k].Offset, End |-> cs[k].Offset + cs[k].Length]]

\* no two entries share a byte, and no entry is empty or reversed; Start and
\* End are uint32 values and are compared as such
NonOverlapping(es) ==
    \A i \in 1..Len(es), j \in 1..Len(es) :
        i # j => ~(ult32(es[i].Start, es[j].End) /\ ult32(es[j].Start, es[i].End))
StartBeforeEnd(es) == \A i \in 1..Len(es) : ult32(es[i].Start, es[i].End)

\* an FDST has just been produced: by a call of GenerateFromSkeleton, or as
\* the FDST record of a write call of the writer
GeneratedByCaller == sk.pc = "skeleton" /\ sk.last = "GenerateFromSkeleton"
WrittenByWriter == sk.pc = "skeleton" /\ sk.owner = "writer" /\ sk.calls > 0 /\ sk.record # NoRecord

\* the chunks of the content the latest write call wrote
WrittenChunks == IF sk.last = "WriteJointFile chunked" THEN Appended ELSE <<>>

\* C19: every FDST produced from a skeleton, by GenerateFromSkeleton or as the
\* FDST record of any write call of the KF8 writer, has exactly one entry per
\* chunk of the content being written, (offset, offset + length), the entries
\* do not overlap and start < end in each.
C19_OneEntryPerChunk ==
    /\ GeneratedByCaller =>
          /\ sk.fdst.Entries = EntriesOf(Chunks)
          /\ NonOverlapping(sk.fdst.Entries)
          /\ StartBeforeEnd(sk.fdst.Entries)
    /\ WrittenByWriter =>
          /\ RecordEntries(sk.record) = EntriesOf(WrittenChunks)
          /\ NonOverlapping(RecordEntries(sk.record))
          /\ StartBeforeEnd(RecordEntries(sk.record))

\* what does hold: the first FDST generated from a skeleton that has chunked
\* one input, and the FDST record of the first write call of a writer, have
\* one entry per chunk, in order, without overlap
C19_FirstFDSTHasOneEntryPerChunk ==
    /\ (GeneratedByCaller /\ sk.calls <= 1 /\ sk.generates = 1) =>
          /\ sk.fdst.Entries = EntriesOf(Chunks)
          /\ NonOverlapping(sk.fdst.Entries)
          /\ StartBeforeEnd(sk.fdst.Entries)
    /\ (WrittenByWriter /\ sk.calls = 1) =>
          /\ RecordEntries(sk.record) = EntriesOf(WrittenChunks)
          /\ NonOverlapping(RecordEntries(sk.record))
          /\ StartBeforeEnd(RecordEntries(sk.record))

\* the writer alone breaks it, on its second write call
C19_WriterOneEntryPerChunk ==
    WrittenByWriter => RecordEntries(sk.record) = EntriesOf(WrittenChunks)

\* ---- FDST.Validate on entries added one by one

\* the entries added to one FDST
MaxFDSTEntries == 3
\* the offsets the entries are made of: 0, 1, 2, 0x80000000 and 0xFFFFFFFF
FDSTOffsets == {0, 1, 2, -2147483647 - 1, NoIndex}

\* the gaps MergeEntries is called with: 0, 1 and 0xFFFFFFFF
MergeGaps == {0, 1, NoIndex}

\* the managers GenerateFromFlows is called with: one flow of one byte, and
\* two flows of which the first is empty
FlowManagers ==
    { CreateFlow(NewFlowManager, PrimaryFlowID, FlowTypeHTML, <<120>>),
      CreateFlow(CreateFlow(NewFlowManager, PrimaryFlowID, FlowTypeHTML, <<>>),
                 <<99>>, FlowTypeHTML, <<120, 121>>) }

NotValidated == <<"not validated", 0>>

FDSTInit ==
    /\ sk = [pc |-> "fdst", fdst |-> NewFDST, result |-> NotValidated]
    /\ pdb = NoWriter
    /\ output = NoOutput
    /\ book = IdleBook
    /\ options = IdleOptions
    /\ w = IdleWriter
    /\ cdc = CodecIdle
    /\ hw = HeaderIdle
    /\ vw = VarintIdle
    /\ ix = IndexIdle

\* a call of FDST.AddEntry
FDSTAdd ==
    /\ sk.pc = "fdst"
    /\ Len(sk.fdst.Entries) < MaxFDSTEntries
    /\ \E start \in FDSTOffsets, end \in FDSTOffsets :
          sk' = [sk EXCEPT !.fdst = FDSTAddEntry(@, start, end), !.result = NotValidated]
    /\ UNCHANGED <<pdb, output, book, options, w, cdc, hw, vw, ix>>

\* a call of FDST.GenerateFromFlows
FDSTGenerateFromFlows ==
    /\ sk.pc = "fdst"
    /\ \E flows \in FlowManagers :
          /\ Len(sk.fdst.Entries) + Len(flows) <= MaxFDSTEntries
          /\ sk' = [sk EXCEPT !.fdst = GenerateFromFlows(@, flows), !.result = NotValidated]
    /\ UNCHANGED <<pdb, output, book, options, w, cdc, hw, vw, ix>>

\* a call of FDST.MergeEntries
FDSTMerge ==
    /\ sk.pc = "fdst"
    /\ \E maxGap \in MergeGaps :
          sk' = [sk EXCEPT !.fdst = MergeEntries(@, maxGap), !.result = NotValidated]
    /\ UNCHANGED <<pdb, output, book, options, w, cdc, hw, vw, ix>>

\* a call of FDST.Validate
FDSTValidate ==
    /\ sk.pc = "fdst"
    /\ sk' = [sk EXCEPT !.result = Validate(sk.fdst)]
    /\ UNCHANGED <<pdb, output, book, options, w, cdc, hw, vw, ix>>

FDSTNext == FDSTAdd \/ FDSTGenerateFromFlows \/ FDSTMerge \/ FDSTValidate

FDSTSpec == FDSTInit /\ [][FDSTNext]_vars

\* ---- C20

Validated == sk.pc = "fdst" /\ sk.result # NotValidated

\* some entry has start >= end, or shares a byte with another entry, or starts
\* before the entry in front of it (uint32 comparisons)
ViolatesInvariants(es) ==
    \/ ~StartBeforeEnd(es)
    \/ ~NonOverlapping(es)
    \/ \E i \in 1..(Len(es) - 1) : ult32(es[i + 1].Start, es[i].Start)

\* C20: Validate returns an error whenever some entry has start >= end, some
\* entry overlaps another or the entries are not in non-decreasing order; it
\* returns nil only when entry[i].end <= entry[i+1].start for all i and
\* start < end in every entry.
C20_ValidateRejectsViolations ==
    Validated =>
        /\ ViolatesInvariants(sk.fdst.Entries) => sk.result # ValidateOK
        /\ sk.result = ValidateOK =>
              /\ \A i \in 1..(Len(sk.fdst.Entries) - 1) :
                    ~ult32(sk.fdst.Entries[i + 1].Start, sk.fdst.Entries[i].End)
              /\ StartBeforeEnd(sk.fdst.Entries)

\* Validate has rejected three entries of which the first, 0 to 0xFFFFFFFF,
\* and the last overlap while each adjacent pair is in order
C20_Witness ==
    /\ Validated
    /\ Len(sk.fdst.Entries) = 3
    /\ sk.fdst.Entries[1] = [Start |-> 0, End |-> NoIndex]
    /\ ult32(sk.fdst.Entries[1].Start, sk.fdst.Entries[3].End)
    /\ ult32(sk.fdst.Entries[3].Start, sk.fdst.Entries[1].End)
    /\ ~ult32(sk.fdst.Entries[2].Start, sk.fdst.Entries[1].End)
    /\ ~ult32(sk.fdst.Entries[3].Start, sk.fdst.Entries[2].End)
    /\ sk.result = ErrStartNotBeforeEnd(1)

\* Validate has accepted the single entry 0 to 0xFFFFFFFF and has rejected
\* the single entry 0x80000000 to 1
C20_HighOffsetsReached ==
    /\ Validated
    /\ Len(sk.fdst.Entries) = 1
    /\ \/ sk.fdst.Entries[1] = [Start |-> 0, End |-> NoIndex] /\ sk.result = ValidateOK
       \/ /\ sk.fdst.Entries[1] = [Start |-> -2147483647 - 1, End |-> 1]
          /\ sk.result = ErrStartNotBeforeEnd(0)

\* ----------------------- WriteJointFile with a BOUNDARY record (part_007)

EXTHKF8Bounded == 121

\* "BOUNDARY"
BoundaryMarker == <<66, 79, 85, 78, 68, 65, 82, 89>>

\* EXTHWriter.AddKF8Boundary
AddKF8Boundary(recs, boundaryRecordIndex) ==
    Append(recs, [RecordType |-> EXTHKF8Bounded, Data |-> BE32(boundaryRecordIndex)])

\* the EXTH records the joint writer builds: AddFromMetadata is called with
\* seven strings, none of them a language, then AddKF8Boundary
boundaryEXTH(b, boundaryRecordIndex) ==
    AddKF8Boundary(
        AddFromMetadata(<<>>, b.Metadata.Title, joinStrings(b.Metadata.Authors, CommaSpace),
                        b.Metadata.Publisher, b.Metadata.ISBN, b.Metadata.Year,
                        b.Metadata.Annotation, b.Metadata.Rights, <<>>),
        U32(boundaryRecordIndex))

\* mobi6Header as it is written: version 6, content records 1 to
\* boundaryRecordIndex - 1
mobi6HeaderOf(h, name, boundaryRecordIndex) ==
    SetContentRecords([SetFullName(h, name) EXCEPT !.FormatVersion = MOBIVersion],
                      1, U16(boundaryRecordIndex - 1))

\* mobi8Header as it is written: version 8, content records from
\* boundaryRecordIndex + 2 on
mobi8HeaderOf(h, name, boundaryRecordIndex, kf8TextRecords) ==
    LET kf8FirstContentRec == boundaryRecordIndex + 2
        kf8LastContentRec == kf8FirstContentRec + Len(kf8TextRecords) - 1
    IN  SetContentRecords([SetFullName(h, name) EXCEPT !.FormatVersion = KF8Version],
                          U16(kf8FirstContentRec), U16(kf8LastContentRec))

\* the record list rebuilt with the two headers: the MOBI 6 header, the
\* records up to and including the boundary, the KF8 header, the others
rebuiltRecords(allRecords, boundaryRecordIndex, header6, header8) ==
    LET boundaryEnd == boundaryRecordIndex + 1
        upTo == IF boundaryEnd < Len(allRecords) THEN boundaryEnd ELSE Len(allRecords)
    IN  <<header6>> \o SubSeq(allRecords, 1, upTo) \o <<header8>>
            \o SubSeq(allRecords, boundaryEnd + 1, Len(allRecords))

\* the record entries of the rebuilt list
rebuiltEntries(allRecords, boundaryRecordIndex) ==
    LET boundaryEnd == boundaryRecordIndex + 1
        upTo == IF boundaryEnd < Len(allRecords) THEN boundaryEnd ELSE Len(allRecords)
        entry(id) == [Offset |-> 0, Attributes |-> 0, UniqueID |-> U32(id)]
    IN  <<entry(0)>> \o [i \in 1..upTo |-> entry(i)] \o <<entry(boundaryEnd + 1)>>
            \o [k \in 1..(Len(allRecords) - boundaryEnd) |-> entry(boundaryEnd + k - 1 + 2)]

\* texts of the joint writes: empty, plain, a tag, and one byte more than a
\* text record
BoundaryTexts == {<<>>, TxtPlain, TxtOne, Repeat(<<65>>, RecordSize + 1)}

BoundaryConfigs ==
    { [book |-> BookOf(c, m, <<>>, toc),
       options |-> [OptionsOf(NoCompression, NoCover, gen, TRUE, fdst) EXCEPT !.EnableChunking = chunk]] :
        c \in BoundaryTexts,
        m \in {ManifestOf({}, {}, {}), ManifestOf({IdA, IdB}, {IdB}, {})},
        toc \in TOCs, gen \in BOOLEAN, fdst \in BOOLEAN, chunk \in BOOLEAN }
        \cup { [book |-> c.book, options |-> c.options] :
                   c \in {t \in TitledConfigs : t.entry = "joint"} }

\* a KF8Writer made by NewKF8Writer for the book, before WriteJointFile
BoundaryInit ==
    /\ \E c \in BoundaryConfigs :
          /\ book = c.book
          /\ options = c.options
    /\ w = [entry |-> "boundary", pc |-> "start", recordIndex |-> 0,
            mobi6Header |-> NewMOBIHeader(0, 0, 1), textRecords |-> <<>>,
            boundaryRecordIndex |-> 0, kf8Content |-> <<>>, kf8TextRecords |-> <<>>]
    /\ sk = [pc |-> "writer", skeleton |-> NewSkeleton, fdst |-> NewFDST]
    /\ pdb = NoWriter
    /\ output = NoOutput
    /\ cdc = CodecIdle
    /\ hw = HeaderIdle
    /\ vw = VarintIdle
    /\ ix = IndexIdle

\* steps 1 to 4: the MOBI 6 header is created; the text records (not
\* compressed), the images and the TOC index are added
BJMobi6Section ==
    /\ w.entry = "boundary" /\ w.pc = "start"
    /\ \E id \in RandomIDs :
          LET textRecords == splitTextRecords(book.Content)
              images == resourceData(book, imageIDs(book, GetManifestIDs(book)))
              p1 == addAll(NewPalmDBWriter(getBookName(book, options)), "text", textRecords, 0)
              p2 == addAll(p1, "image", images, Len(p1.records))
              p3 == IF options.GenerateTOC /\ Len(book.TOC.Children) > 0
                    THEN AddRecord(p2, tocINDXRecord(book, book.Content, textRecords), 0, U32(Len(p2.records)))
                    ELSE p2
          IN  /\ pdb' = p3
              /\ w' = [w EXCEPT !.pc = "boundary",
                                !.mobi6Header = NewMOBIHeader(Len(book.Content), CalculateRecordCount(Len(book.Content)), id),
                                !.textRecords = textRecords,
                                !.recordIndex = Len(p3.records)]
    /\ UNCHANGED <<output, book, options, cdc, hw, vw, ix, sk>>

\* the boundary record
BJBoundary ==
    /\ w.entry = "boundary" /\ w.pc = "boundary"
    /\ pdb' = AddRecord(pdb, Payload("boundary", BoundaryMarker), 0, U32(w.recordIndex))
    /\ w' = [w EXCEPT !.pc = "kf8", !.boundaryRecordIndex = w.recordIndex, !.recordIndex = @ + 1]
    /\ UNCHANGED <<output, book, options, cdc, hw, vw, ix, sk>>

\* steps 5 to 7: the KF8 content, its text records and the FDST record
BJKF8Section ==
    /\ w.entry = "boundary" /\ w.pc = "kf8"
    /\ LET skeleton == preparedSkeleton(sk.skeleton, options.EnableChunking, book.Content)
           kf8Content == preparedContent(sk.skeleton, options.EnableChunking, book.Content)
           fdst == preparedFDST(sk.fdst, sk.skeleton, options.EnableChunking, options.GenerateFDST, book.Content)
           kf8TextRecords == splitTextRecords(kf8Content)
           p1 == addAll(pdb, "kf8text", kf8TextRecords, w.recordIndex)
           p2 == IF options.GenerateFDST
                 THEN AddRecord(p1, Payload("fdst", FDSTWrite(fdst.Entries)), 0, U32(Len(p1.records)))
                 ELSE p1
       IN  /\ sk' = [sk EXCEPT !.skeleton = skeleton, !.fdst = fdst]
           /\ pdb' = p2
           /\ w' = [w EXCEPT !.pc = "headers", !.kf8Content = kf8Content,
                             !.kf8TextRecords = kf8TextRecords,
                             !.recordIndex = Len(p2.records)]
    /\ UNCHANGED <<output, book, options, cdc, hw, vw, ix>>

\* the headers: the EXTH block with the boundary index, the MOBI 6 header,
\* step 8 (the KF8 header), and the record list rebuilt around them
BJHeaders ==
    /\ w.entry = "boundary" /\ w.pc = "headers"
    /\ \E id \in RandomIDs :
          LET name == getBookName(book, options)
              header6 == HeaderPayload(mobi6HeaderOf(w.mobi6Header, name, w.boundaryRecordIndex),
                                       EXTHWrite(boundaryEXTH(book, w.boundaryRecordIndex)))
              mobi8Header == NewMOBIHeader(Len(w.kf8Content), CalculateRecordCount(Len(w.kf8Content)), id)
              header8 == HeaderPayload(mobi8HeaderOf(mobi8Header, name, w.boundaryRecordIndex, w.kf8TextRecords), <<>>)
          IN  pdb' = SetRecords(pdb, rebuiltRecords(pdb.records, w.boundaryRecordIndex, header6, header8),
                                rebuiltEntries(pdb.records, w.boundaryRecordIndex))
    /\ w' = [w EXCEPT !.pc = "write"]
    /\ UNCHANGED <<output, book, options, cdc, hw, vw, ix, sk>>

\* palmWriter.Write stores the offsets in the record entries and sends the
\* file to the output, which also keeps the records written
BJWrite ==
    /\ w.entry = "boundary" /\ w.pc = "write"
    /\ \E seed \in RandomIDs :
          output' = [output EXCEPT !.writes = @ + 1,
                                   !.bytes = PalmDBWrite(asBytes(pdb), seed),
                                   !.records = pdb.records]
    /\ pdb' = [pdb EXCEPT !.recordEntries = writtenEntries(pdb)]
    /\ w' = [w EXCEPT !.pc = "done"]
    /\ UNCHANGED <<book, options, cdc, hw, vw, ix, sk>>

BoundaryNext == BJMobi6Section \/ BJBoundary \/ BJKF8Section \/ BJHeaders \/ BJWrite

BoundarySpec == BoundaryInit /\ [][BoundaryNext]_vars

\* ---- C21

BoundaryDone == w.entry = "boundary" /\ w.pc = "done"

\* the bytes of record i of the file (0-based): a header record is the MOBI
\* header followed by its data
RecordBytes(i) == payloadBytes(File[i + 1])

RECURSIVE exthRecordsFrom(_, _, _)
\* the n EXTH records read from d at offset p on
exthRecordsFrom(d, p, n) ==
    IF n = 0 \/ p + EXTHRecordOverhead > Len(d) THEN <<>>
    ELSE LET len == U32At(d, p + 4)
         IN  IF len < EXTHRecordOverhead \/ p + len > Len(d) THEN <<>>
             ELSE <<[RecordType |-> U32At(d, p), Data |-> Slice(d, p + EXTHRecordOverhead, p + len)]>>
                      \o exthRecordsFrom(d, p + len, n - 1)

\* the EXTH records of record 0, read from its bytes after the MOBI header
Record0EXTH ==
    LET d == File[1].data
    IN  IF Len(d) >= EXTHHeaderLen /\ Slice(d, 0, 4) = EXTHIdentifier
        THEN exthRecordsFrom(d, EXTHHeaderLen, U32At(d, 8))
        ELSE <<>>

\* the indices of the records of the file whose payload is "BOUNDARY"
BoundaryIndices == {i \in 0..(Len(File) - 1) : RecordBytes(i) = BoundaryMarker}

\* the values of the type-121 records of record 0
BoundaryValues ==
    {U32At(Record0EXTH[k].Data, 0) : k \in {j \in 1..Len(Record0EXTH) : Record0EXTH[j].RecordType = EXTHKF8Bounded /\ Len(Record0EXTH[j].Data) = 4}}

\* C21: in a file produced by the joint writer the EXTH block of record 0 has
\* a type-121 record whose value is the index, in the written file, of a
\* record whose payload is "BOUNDARY".
C21_EXTHBoundaryIsBoundaryIndex ==
    BoundaryDone => \E b \in BoundaryValues : b \in BoundaryIndices

\* what the file holds: one type-121 record and one BOUNDARY record, and the
\* value is one less than the index of the BOUNDARY record, for the MOBI 6
\* header is put in front of the records after the value is taken
C21_EXTHBoundaryIsOneLess ==
    BoundaryDone =>
        /\ BoundaryValues = {w.boundaryRecordIndex}
        /\ BoundaryIndices = {w.boundaryRecordIndex + 1}

\* the file of the joint writer that writes no BOUNDARY record (writer.go)
\* has neither a type-121 record nor a BOUNDARY record
C21_PureKF8HasNoBoundary ==
    JointDone => BoundaryValues = {} /\ BoundaryIndices = {}

\* ---- C22

\* record i of the file is a MOBI header of version v
IsHeaderOfVersion(i, v) ==
    /\ i >= 0 /\ i < Len(File)
    /\ RecordAt(i).kind = "header"
    /\ RecordAt(i).hdr.FormatVersion = v

\* C22: with the BOUNDARY record at index B of the written file, the MOBI 6
\* header of record 0 has LastContentRec = B - 1, the version 8 header is
\* record B + 1, and its FirstContentRec is B + 2, the index of the first KF8
\* text record.
C22_HeadersAroundBoundary ==
    BoundaryDone =>
        \A b \in BoundaryIndices :
            /\ IsHeaderOfVersion(0, MOBIVersion)
            /\ FileHeader.LastContentRec = U16(b - 1)
            /\ IsHeaderOfVersion(b + 1, KF8Version)
            /\ RecordAt(b + 1).hdr.FirstContentRec = U16(b + 2)
            /\ w.kf8TextRecords # <<>> => RecordAt(b + 2).kind = "kf8text"

\* what the file holds: the version 8 header is record B + 1 and the first
\* KF8 text record is record B + 2, but both content record fields are those
\* of the record list without the MOBI 6 header, one less than the claim's
C22_ContentRecordsAreOneLess ==
    BoundaryDone =>
        \A b \in BoundaryIndices :
            /\ IsHeaderOfVersion(0, MOBIVersion)
            /\ FileHeader.LastContentRec = U16(b - 2)
            /\ IsHeaderOfVersion(b + 1, KF8Version)
            /\ RecordAt(b + 1).hdr.FirstContentRec = U16(b + 1)
            /\ w.kf8TextRecords # <<>> => RecordAt(b + 2).kind = "kf8text"

\* --------------------------------------------- KF8Writer.Write (writer.go)

\* convertCSSLinks, convertImageLinks and convertAnchorLinks return their
\* argument
convertHTMLLinks(html) == html

\* FlowManager.ConvertLinks
ConvertLinks(flows) ==
    [k \in 1..Len(flows) |->
        IF flows[k].Type = FlowTypeHTML
        THEN [flows[k] EXCEPT !.Content = convertHTMLLinks(@)]
        ELSE flows[k]]

\* FlowManager.GetPrimaryFlow: the first flow the manager ever created and
\* true, or nil and false for a manager without flows
GetPrimaryFlow(flows) ==
    IF Len(flows) = 0 THEN [flow |-> "nil", ok |-> FALSE]
    ELSE [flow |-> flows[1], ok |-> TRUE]

\* the flows after step 2 of Write; addResourcesToFlows finds none of the
\* flows "styles", "svg" and "fonts", which are never created
flowsAfterWrite(flows, supportFlows, content) ==
    IF supportFlows THEN ConvertLinks(CreateFlow(flows, PrimaryFlowID, FlowTypeHTML, content))
    ELSE flows

\* the content Write stores in the book at step 3
contentAfterWrite(skeleton, flows, kf8opts, bookContent) ==
    LET content == preparedContent(skeleton, kf8opts.EnableChunking, bookContent)
    IN  IF kf8opts.SupportFlows
        THEN GetPrimaryFlow(flowsAfterWrite(flows, TRUE, content)).flow.Content
        ELSE content

\* the Write calls made on one KF8Writer
MaxWriteCalls == 2

KF8Texts == {<<>>, TxtPlain, TxtOne}

KF8Configs ==
    { [book |-> BookOf(c, m, <<>>, toc),
       options |-> OptionsOf(comp, NoCover, TRUE, TRUE, TRUE),
       kf8 |-> [EnableChunking |-> chunk, GenerateFDST |-> fdst, SupportFlows |-> flows]] :
        c \in KF8Texts,
        m \in {ManifestOf({}, {}, {}), ManifestOf({IdA}, {}, {})},
        toc \in TOCs, comp \in {NoCompression, PalmDOCCompression},
        chunk \in BOOLEAN, fdst \in BOOLEAN, flows \in BOOLEAN }

\* a KF8Writer made by NewKF8Writer and SetOptions; input keeps the book as
\* the latest Write call found it
KF8Init ==
    /\ \E c \in KF8Configs :
          /\ book = c.book
          /\ options = c.options
          /\ sk = [pc |-> "kf8writer", options |-> c.kf8, skeleton |-> NewSkeleton,
                   fdst |-> NewFDST, flows |-> NewFlowManager, calls |-> 0, input |-> c.book]
    /\ w = IdleWriter
    /\ pdb = NoWriter
    /\ output = NoOutput
    /\ cdc = CodecIdle
    /\ hw = HeaderIdle
    /\ vw = VarintIdle
    /\ ix = IndexIdle

\* KF8Writer.Write, steps 1 to 4: the content is chunked and annotated, put
\* through the primary flow and stored in the book; step 5, mobiWriter.Write,
\* is the MOBI 6 writer, which starts here on the same book
KF8WritePrepare ==
    /\ sk.pc = "kf8writer"
    /\ w.pc \in {"idle", "done"}
    /\ sk.calls < MaxWriteCalls
    /\ LET content == contentAfterWrite(sk.skeleton, sk.flows, sk.options, book.Content)
       IN  /\ book' = [book EXCEPT !.Content = content]
           /\ sk' = [sk EXCEPT
                        !.skeleton = preparedSkeleton(@, sk.options.EnableChunking, book.Content),
                        !.fdst = preparedFDST(@, sk.skeleton, sk.options.EnableChunking, sk.options.GenerateFDST, book.Content),
                        !.flows = flowsAfterWrite(@, sk.options.SupportFlows, preparedContent(sk.skeleton, sk.options.EnableChunking, book.Content)),
                        !.calls = @ + 1,
                        !.input = book]
    /\ w' = WriterStart("mobi6")
    /\ UNCHANGED <<pdb, output, options, cdc, hw, vw, ix>>

\* the options SetOptions is called with between two Write calls: the
\* defaults, the defaults without flows, and PalmDOC compression with
\* chunking, FDST and flows off
KF8OptionSets ==
    { [options |-> OptionsOf(NoCompression, NoCover, TRUE, TRUE, TRUE),
       kf8 |-> [EnableChunking |-> TRUE, GenerateFDST |-> TRUE, SupportFlows |-> TRUE]],
      [options |-> OptionsOf(NoCompression, NoCover, TRUE, TRUE, TRUE),
       kf8 |-> [EnableChunking |-> TRUE, GenerateFDST |-> TRUE, SupportFlows |-> FALSE]],
      [options |-> OptionsOf(PalmDOCCompression, NoCover, TRUE, TRUE, TRUE),
       kf8 |-> [EnableChunking |-> FALSE, GenerateFDST |-> FALSE, SupportFlows |-> FALSE]] }

\* KF8Writer.SetOptions: the writer's options and, through
\* mobiWriter.SetOptions, the write options of its MOBI 6 writer
KF8SetOptions ==
    /\ sk.pc = "kf8writer"
    /\ w.pc \in {"idle", "done"}
    /\ \E o \in KF8OptionSets :
          /\ sk' = [sk EXCEPT !.options = o.kf8]
          /\ options' = o.options
    /\ UNCHANGED <<pdb, output, book, w, cdc, hw, vw, ix>>

KF8Next ==
    \/ KF8WritePrepare \/ KF8SetOptions
    \/ WResolve \/ WSplit \/ WAddHeader \/ WAddText \/ WAddTOC \/ WAddImages
    \/ WAddStructural \/ WBackPatch \/ WWrite

KF8Spec == KF8Init /\ [][KF8Next]_vars

\* ---- C23

\* a Write call of the KF8 writer has returned
KF8WriteDone == sk.pc = "kf8writer" /\ sk.calls > 0 /\ w.pc = "done"

\* C23: no write entry point modifies the input book: its Content, TOC,
\* Metadata and Manifest are the same after the call as before it.
C23_WriteKeepsBook ==
    KF8WriteDone =>
        /\ book.Content = sk.input.Content
        /\ book.TOC = sk.input.TOC
        /\ book.Metadata = sk.input.Metadata
        /\ book.Manifest = sk.input.Manifest

\* what KF8Writer.Write keeps: everything but the content
C23_WriteKeepsAllButContent ==
    KF8WriteDone =>
        /\ book.TOC = sk.input.TOC
        /\ book.Metadata = sk.input.Metadata
        /\ book.Manifest = sk.input.Manifest

\* no step of the MOBI 6 writer and of WriteJointFile changes the book
C23_OtherWritersKeepBook == [][book' = book]_vars

\* ------------------------------------------------ Validator (validate.go)

\* "BOOK", "MOBI" and "EXTH"
BookMagic == <<66, 79, 79, 75>>
MobiMagic == <<77, 79, 66, 73>>
ExthMagic == <<69, 88, 84, 72>>

\* bytes.Index(d, sep)
bytesIndex(d, sep) ==
    LET hits == {q \in 0..(Len(d) - Len(sep)) : hasPrefixAt(d, q, sep)}
    IN  IF hits = {} THEN -1 ELSE CHOOSE q \in hits : \A r \in hits : q <= r

\* bytes.TrimRight(d, "\x00")
trimRightNUL(d) ==
    LET keep == {n \in 0..Len(d) : \A q \in (n + 1)..Len(d) : d[q] = 0}
    IN  SubSeq(d, 1, CHOOSE n \in keep : \A m \in keep : n <= m)

\* NewValidator: the slice data is array[0:len]; cap(data) is Len(array)
NewValidator(array, len) == [array |-> array, len |-> len, errors |-> <<>>, warnings |-> <<>>, panic |-> FALSE]

\* v.data
dataOf(v) == Slice(v.array, 0, v.len)

\* a message and the value formatted into it
Message(msg, arg) == [msg |-> msg, arg |-> arg]

addError(v, msg, arg) == [v EXCEPT !.errors = Append(@, Message(msg, arg))]

addWarning(v, msg, arg) == [v EXCEPT !.warnings = Append(@, Message(msg, arg))]

\* a slice expression whose bound exceeds the capacity
Panic(v) == [v EXCEPT !.panic = TRUE]

\* the bytes the search for "BOOK" looks at
TypeSearchLen == 100

\* Validator.validatePalmDBHeader; v.data[:100] reslices up to the capacity
validatePalmDBHeader(v) ==
    LET named == IF trimRightNUL(Slice(dataOf(v), 0, 32)) = <<>>
                 THEN addWarning(v, "Empty database name", <<>>) ELSE v
        typeOffset == bytesIndex(Slice(v.array, 0, TypeSearchLen), BookMagic)
    IN  IF Len(v.array) < TypeSearchLen THEN Panic(named)
        ELSE IF typeOffset = -1 THEN addError(named, "Could not find file type 'BOOK'", <<>>)
        ELSE IF typeOffset + 8 > v.len THEN addError(named, "File too short for creator check", <<>>)
        ELSE IF Slice(dataOf(v), typeOffset + 4, typeOffset + 8) # MobiMagic
             THEN addError(named, "Invalid creator: %s (expected 'MOBI')", Slice(dataOf(v), typeOffset + 4, typeOffset + 8))
        ELSE named

\* the PalmDB header and the smallest MOBI header
PalmDBMinimum == 78
MinMOBIHeaderLen == 232

RECURSIVE mobiHeaderLoop(_, _)
\* the loop of validateMOBIHeader: the offset of the first "MOBI" at or after
\* mobiOffset that has a length of at least 232 and a version from 2 to 8,
\* or -1
mobiHeaderLoop(d, mobiOffset) ==
    IF /\ mobiOffset + 12 <= Len(d)
       /\ uge(U32At(d, mobiOffset + 4), MinMOBIHeaderLen)
       /\ uge(U32At(d, mobiOffset + 8), 2)
       /\ ~ugt(U32At(d, mobiOffset + 8), 8)
    THEN mobiOffset
    ELSE LET next == bytesIndex(Slice(d, mobiOffset + 4, Len(d)), MobiMagic)
         IN  IF next = -1 THEN -1 ELSE mobiHeaderLoop(d, mobiOffset + 4 + next)

\* Validator.validateMOBIHeader
validateMOBIHeader(v) ==
    LET d == dataOf(v)
        first == bytesIndex(Slice(d, PalmDBMinimum, Len(d)), MobiMagic)
        mobiOffset == mobiHeaderLoop(d, first + PalmDBMinimum)
        versioned == IF ult(U32At(d, mobiOffset + 8), 2) \/ ugt(U32At(d, mobiOffset + 8), 8)
                     THEN addWarning(v, "Unusual MOBI version: %d (expected 2-8)", U32At(d, mobiOffset + 8))
                     ELSE v
        lengthChecked == IF ult(U32At(d, mobiOffset + 4), MinMOBIHeaderLen)
                         THEN addError(v, "Invalid MOBI header length: %d (should be >= 232)", U32At(d, mobiOffset + 4))
                         ELSE v
    IN  IF Len(d) <= PalmDBMinimum THEN addError(v, "File too short to contain MOBI header", <<>>)
        ELSE IF first = -1 \/ mobiOffset = -1 THEN addError(v, "MOBI header not found", <<>>)
        ELSE IF Len(d) < mobiOffset + 4 THEN addError(v, "File too short for MOBI header length", <<>>)
        ELSE IF Len(d) < mobiOffset + 12 THEN addError(lengthChecked, "File too short for MOBI version", <<>>)
        ELSE IF Len(d) < mobiOffset + 32
             THEN addError([versioned EXCEPT !.errors = lengthChecked.errors], "File too short for encoding check", <<>>)
        ELSE IF U32At(d, mobiOffset + 28) # 65001
             THEN addWarning([versioned EXCEPT !.errors = lengthChecked.errors], "Encoding is not UTF-8: %d (expected 65001)", U32At(d, mobiOffset + 28))
        ELSE [versioned EXCEPT !.errors = lengthChecked.errors]

RECURSIVE exthRecordTypes(_, _)
\* the loop of checkEXTHRecords: the types of the records it visits
exthRecordTypes(d, pos) ==
    IF pos >= Len(d) - 8 \/ ult(U32At(d, pos + 4), 8) THEN {}
    ELSE {U32At(d, pos)} \cup
         (IF ugt(U32At(d, pos + 4), Len(d) - pos) THEN {}
          ELSE exthRecordTypes(d, pos + U32At(d, pos + 4)))

\* Validator.checkEXTHRecords
checkEXTHRecords(v, offset) ==
    LET types == exthRecordTypes(dataOf(v), offset)
        a == IF 100 \in types THEN v ELSE addWarning(v, "EXTH missing author record (100)", <<>>)
        t == IF 503 \in types THEN a ELSE addWarning(a, "EXTH missing title record (503)", <<>>)
    IN  IF 101 \in types THEN t ELSE addWarning(t, "EXTH missing publisher record (101)", <<>>)

\* Validator.validateEXTH; a header length of 2^31 or more puts the EXTH
\* offset past any file
validateEXTH(v) ==
    LET d == dataOf(v)
        mobiOffset == bytesIndex(d, MobiMagic)
        headerLength == U32At(d, mobiOffset + 4)
        exthOffset == mobiOffset + headerLength
        counted == IF U32At(d, exthOffset + 8) = 0
                   THEN addWarning(v, "EXTH header has no records", <<>>) ELSE v
    IN  IF mobiOffset = -1 THEN v
        ELSE IF Len(d) < mobiOffset + 8 THEN v
        ELSE IF headerLength < 0 \/ Len(d) < exthOffset + 4 THEN v
        ELSE IF Slice(d, exthOffset, exthOffset + 4) # ExthMagic
             THEN addWarning(v, "No EXTH header found (metadata may be limited)", <<>>)
        ELSE IF Len(d) < exthOffset + 8 THEN addError(v, "File too short for EXTH header length", <<>>)
        ELSE IF ult(U32At(d, exthOffset + 4), 12)
             THEN addError(v, "Invalid EXTH header length: %d (should be >= 12)", U32At(d, exthOffset + 4))
        ELSE IF Len(d) < exthOffset + 12 THEN addError(v, "File too short for EXTH record count", <<>>)
        ELSE checkEXTHRecords(counted, exthOffset + 12)

\* Validator.Validate: the validator after the call; its result is
\* len(v.errors) == 0 unless the call panicked
ValidatorValidate(v) ==
    LET fresh == [v EXCEPT !.errors = <<>>, !.warnings = <<>>]
        palm == validatePalmDBHeader(fresh)
    IN  IF v.len < PalmDBMinimum THEN addError(fresh, "File too short to be a valid MOBI", <<>>)
        ELSE IF palm.panic THEN palm
        ELSE validateEXTH(validateMOBIHeader(palm))

\* overwrite d at p with b, as far as d reaches
putAt(d, p, b) ==
    [q \in 1..Len(d) |-> IF q - 1 >= p /\ q - 1 < p + Len(b) THEN b[q - p] ELSE d[q]]

\* the files put before the validator: FileLen bytes with "BOOK" and a creator
\* at bookAt, a MOBI header at offset 80 and an EXTH header behind it
FileLen == 340
ValidatorFile(named, bookAt, creator, hasMobi, hlen, version, enc, exth) ==
    LET z == Zeros(FileLen)
        n == IF named THEN putAt(z, 0, <<84>>) ELSE z
        b == IF bookAt < 0 THEN n ELSE putAt(putAt(n, bookAt, BookMagic), bookAt + 4, creator)
        m == IF hasMobi
             THEN putAt(putAt(b, 80, MobiMagic \o BE32(hlen) \o BE32(version)), 108, BE32(enc))
             ELSE b
    IN  IF exth = "none" THEN m
        ELSE IF exth = "short" THEN putAt(m, 312, ExthMagic \o BE32(11))
        ELSE putAt(m, 312, ExthMagic \o BE32(12 + 9 + 9) \o BE32(2) \o BE32(100) \o BE32(9) \o <<65>> \o BE32(503) \o BE32(9) \o <<66>>)

ValidatorFiles ==
    { ValidatorFile(named, bookAt, creator, hasMobi, hlen, version, enc, exth) :
        named \in BOOLEAN, bookAt \in {-1, 72, 94}, creator \in {MobiMagic, <<88, 88, 88, 88>>},
        hasMobi \in BOOLEAN, hlen \in {231, 232, -1}, version \in {1, 6},
        enc \in {65001, 1252}, exth \in {"none", "short", "records"} }

ValidatorLens == {0, 9, 77, 78, 92, 99, 100, 112, FileLen}

\* the capacity of the slice handed to NewValidator: its length, as make
\* and a conversion give it, or more, as append and a buffer give it
ValidatorInit ==
    /\ \E file \in ValidatorFiles, len \in ValidatorLens, cap \in {0, 160, FileLen} :
          /\ cap = 0 \/ cap >= len
          /\ sk = [pc |-> "validator",
                   v |-> NewValidator(Slice(file, 0, IF cap = 0 THEN len ELSE cap), len),
                   result |-> "none"]
    /\ pdb = NoWriter
    /\ output = NoOutput
    /\ book = IdleBook
    /\ options = IdleOptions
    /\ w = IdleWriter
    /\ cdc = CodecIdle
    /\ hw = HeaderIdle
    /\ vw = VarintIdle
    /\ ix = IndexIdle

\* one call of Validate
ValidatorCall ==
    /\ sk.pc = "validator"
    /\ sk.result = "none"
    /\ LET after == ValidatorValidate(sk.v)
       IN  sk' = [sk EXCEPT !.v = after,
                            !.result = IF after.panic THEN "panic"
                                       ELSE IF after.errors = <<>> THEN "true" ELSE "false"]
    /\ UNCHANGED <<pdb, output, book, options, w, cdc, hw, vw, ix>>

ValidatorNext == ValidatorCall

ValidatorSpec == ValidatorInit /\ [][ValidatorNext]_vars

\* ---- C24

Validated24 == sk.pc = "validator" /\ sk.result # "none"

\* C24: Validate never panics: for every input byte string of any length and
\* content it returns a boolean and reports problems only through its errors
\* and warnings.
C24_ValidateNeverPanics == Validated24 => sk.result \in {"true", "false"}

\* Validate panics exactly on a slice of 78 to 99 bytes whose capacity is
\* below 100
C24_PanicsOnlyBelowSearchLen ==
    Validated24 =>
        (sk.result = "panic" <=> (sk.v.len >= PalmDBMinimum /\ Len(sk.v.array) < TypeSearchLen))

\* a file shorter than 78 bytes is reported by an error and FALSE
C24_ShortFileIsAnError ==
    (Validated24 /\ sk.v.len < PalmDBMinimum) =>
        /\ sk.result = "false"
        /\ sk.v.errors = << Message("File too short to be a valid MOBI", <<>>) >>

\* ------------------------------------------ the name field of the header

\* names by their runes: ASCII, Cyrillic letters of one, two and four Latin
\* letters, runes outside the table (e-acute, a CJK ideograph, U+FFFD, an
\* emoticon of four bytes) and NUL
NamePatterns ==
    { <<66, 107>>, <<1046, 1103>>, <<1097>>, <<233>>, <<65533, 66>>,
      <<1040, 20013, 0, 65, 1097>>, <<128512, 1046>> }

\* names by their bytes: the Cyrillic letter a (D0 B0), which a cut at an odd
\* length leaves half of, a stray continuation byte, an overlong NUL, a
\* surrogate, and a sequence above U+10FFFF
BytePatterns ==
    { <<208, 176>>, <<128, 65>>, <<192, 128>>, <<237, 160, 128>>,
      <<244, 144, 128, 128>> }

NameLens == {0, 1, 7, 8, 15, 16, 30, 31, 32, 33, 40}

NameInputs ==
    { stringOf(Repeat(pat, n)) : pat \in NamePatterns, n \in NameLens }
        \cup { Repeat(pat, n) : pat \in BytePatterns, n \in NameLens }

NameInit ==
    /\ \E name \in NameInputs : pdb = NewPalmDBWriter(name)
    /\ output = NoOutput
    /\ book = IdleBook
    /\ options = IdleOptions
    /\ w = IdleWriter
    /\ cdc = CodecIdle
    /\ hw = HeaderIdle
    /\ LibraryIdle

NameNext == PalmWrite

NameSpec == NameInit /\ [][NameNext]_vars

\* ---- C25

\* the name field of the written header
NameField == Slice(output.bytes, 0, NameFieldSize)

\* the characters of the database name
NameRunes == runesOf(pdb.name)

CyrillicRunes == 1025..1105
Unmapped(r) == r >= 128 /\ r \notin CyrillicRunes

\* C25: for every database name the 32-byte name field of the written header
\* contains only bytes <= 0x7F, holds at most 31 name characters and is
\* NUL-terminated; a name of unmapped characters becomes question marks.
C25_NameFieldIsASCII ==
    output.writes > 0 =>
        /\ \A i \in 1..NameFieldSize : NameField[i] \in 0..127
        /\ NameField[NameFieldSize] = 0
        /\ \E n \in 0..MaxNameLen :
              /\ \A i \in 1..n : NameField[i] # 0
              /\ \A i \in (n + 1)..NameFieldSize : NameField[i] = 0
        /\ (\A i \in 1..Len(NameRunes) : Unmapped(NameRunes[i])) =>
              \A i \in 1..NameFieldSize :
                  NameField[i] = IF i <= Len(NameRunes) /\ i <= MaxNameLen THEN 63 ELSE 0

\* a written header for a name of more than 31 characters with a Cyrillic
\* letter, an unmapped rune and a NUL, cut inside a transliteration
C25_Witness ==
    /\ output.writes > 0
    /\ Len(NameRunes) > MaxNameLen
    /\ Len(pdb.name) > Len(NameRunes)
    /\ \E i \in 1..Len(NameRunes) : NameRunes[i] \in CyrillicRunes
    /\ \E i \in 1..Len(NameRunes) : Unmapped(NameRunes[i])
    /\ \E i \in 1..Len(NameRunes) : NameRunes[i] = 0
    /\ Len(translitFrom(NameRunes)) > MaxNameLen
    /\ NameField[MaxNameLen] # 0

\* the name of 20 Cyrillic letters a cut to 31 bytes, as getBookName cuts it:
\* fifteen letters and half a letter, written as fifteen "a" and a "?"
C25_CutLetterReached ==
    /\ output.writes > 0
    /\ pdb.name = Repeat(<<208, 176>>, 31)
    /\ Slice(NameField, 0, 17) = Repeat(<<97>>, 15) \o <<63, 0>>

\* ---- C26

\* the image resources of the manifest
ManifestImages == {id \in DOMAIN book.Manifest : isImage(book.Manifest[id])}

\* the absolute indices of the image records that hold the resource id
RecordsOfResource(id) ==
    {i \in ImageRecordIndices : RecordAt(i).data = book.Manifest[id].Data}

\* C26: every image resource of the manifest, the one whose id is the book's
\* cover id included, is stored in exactly one image record of the MOBI 6
\* file, whether or not a cover image is passed in the options.
C26_EveryManifestImageStoredOnce ==
    Mobi6Done => \A id \in ManifestImages : Cardinality(RecordsOfResource(id)) = 1

\* what the writer does: the image named by the cover id is in no record,
\* every other image of the manifest in exactly one
C26_AllButCoverIDStoredOnce ==
    Mobi6Done =>
        \A id \in ManifestImages :
            Cardinality(RecordsOfResource(id)) = IF id = book.Metadata.CoverID THEN 0 ELSE 1

\* --------------------- WriteJointFile (writer.go) with its chunking branch

\* "<p>hello world", "<p>x</p><b>y</b>" and "</p><p>x"
TxtPara == <<60, 112, 62, 104, 101, 108, 108, 111, 32, 119, 111, 114, 108, 100>>
TxtTwoTags == <<60, 112, 62, 120, 60, 47, 112, 62, 60, 98, 62, 121, 60, 47, 98, 62>>
TxtCloseFirst == <<60, 47, 112, 62, 60, 112, 62, 120>>

ChunkedTexts == {<<>>, TxtPlain, TxtOne, TxtPara, TxtTwoTags, TxtCloseFirst}

ChunkedConfigs ==
    { [book |-> BookOf(c, m, <<>>, ZeroTOCEntry),
       options |-> [OptionsOf(NoCompression, NoCover, TRUE, TRUE, fdst) EXCEPT !.EnableChunking = chunk]] :
        c \in ChunkedTexts,
        m \in {ManifestOf({}, {}, {}), ManifestOf({IdA, IdB}, {IdB}, {})},
        fdst \in BOOLEAN, chunk \in BOOLEAN }

\* a KF8Writer made by NewKF8Writer and SetOptions, before WriteJointFile
ChunkedInit ==
    /\ \E c \in ChunkedConfigs :
          /\ book = c.book
          /\ options = c.options
    /\ w = WriterStart("joint")
    /\ sk = [pc |-> "writer", skeleton |-> NewSkeleton, fdst |-> NewFDST]
    /\ pdb = NoWriter
    /\ output = NoOutput
    /\ cdc = CodecIdle
    /\ hw = HeaderIdle
    /\ vw = VarintIdle
    /\ ix = IndexIdle

\* lines 198-221: the PalmDB writer and the KF8 content, chunked and
\* annotated when chunking is enabled, with the FDST generated from the chunks
CJPrepare ==
    /\ w.entry = "joint" /\ w.pc = "start"
    /\ sk.pc = "writer"
    /\ w' = [w EXCEPT !.pc = "text",
                      !.kf8Content = preparedContent(sk.skeleton, options.EnableChunking, book.Content),
                      !.recordIndex = 0]
    /\ sk' = [sk EXCEPT
                 !.skeleton = preparedSkeleton(@, options.EnableChunking, book.Content),
                 !.fdst = preparedFDST(@, sk.skeleton, options.EnableChunking, options.GenerateFDST, book.Content)]
    /\ pdb' = NewPalmDBWriter(getBookName(book, options))
    /\ UNCHANGED <<output, book, options, cdc, hw, vw, ix>>

\* lines 253-260: the FDST of the writer is written into a record
CJAddFDST ==
    /\ w.entry = "joint" /\ w.pc = "fdst"
    /\ sk.pc = "writer"
    /\ IF options.GenerateFDST
       THEN /\ pdb' = AddRecord(pdb, Payload("fdst", FDSTWrite(sk.fdst.Entries)), 0, U32(w.recordIndex))
            /\ w' = [w EXCEPT !.pc = "header", !.recordIndex = @ + 1]
       ELSE /\ pdb' = pdb
            /\ w' = [w EXCEPT !.pc = "header"]
    /\ UNCHANGED <<output, book, options, cdc, hw, vw, ix, sk>>

ChunkedNext == CJPrepare \/ JAddText \/ JAddImages \/ CJAddFDST \/ JHeader \/ JWrite

ChunkedSpec == ChunkedInit /\ [][ChunkedNext]_vars

\* ---- C27

\* a file written with chunking enabled that has an FDST record
ChunkedDone == JointDone /\ sk.pc = "writer" /\ options.EnableChunking /\ options.GenerateFDST

\* the entries of the FDST record of the file
FileFDSTEntries == RecordEntries(RecordAt(CHOOSE i \in IndicesOf("fdst") : TRUE).data)

\* the uncompressed text of the file: the AID-annotated content
StoredText == w.kf8Content

\* the text records of the file hold the compressed text
TextRecordsHoldText == Concat([k \in 1..K |-> RecordAt(k).data]) = CompressPalmDOC(StoredText)

\* C27: in a file written with chunking enabled the FDST ranges describe the
\* stored text: the first entry starts at 0 and the last entry ends at the
\* length of the uncompressed AID-annotated text, which is the uncompressed
\* text size of the MOBI header.
C27_FDSTCoversStoredText ==
    ChunkedDone =>
        /\ TextRecordsHoldText
        /\ FileHeader.UncompressedTextSize = Len(StoredText)
        /\ FileFDSTEntries # <<>>
        /\ FileFDSTEntries[1].Start = 0
        /\ FileFDSTEntries[Len(FileFDSTEntries)].End = Len(StoredText)

\* what the file holds: the header and the records carry the annotated text,
\* the FDST the ranges of the chunks of the text before annotation
C27_FDSTCoversOriginalText ==
    ChunkedDone =>
        /\ TextRecordsHoldText
        /\ FileHeader.UncompressedTextSize = Len(StoredText)
        /\ book.Content # <<>> =>
              /\ FileFDSTEntries[1].Start = 0
              /\ FileFDSTEntries[Len(FileFDSTEntries)].End = Len(book.Content)
        /\ book.Content = <<>> => FileFDSTEntries = <<>>

\* ---- C28

\* the input has been compressed; the inputs are shorter than a record
CodecCompressed == cdc.pc \in {"compressed", "done"}

\* the positions at which a turn of compressRecord's loop starts
TurnPositions(data) ==
    {compressLoop(data, [pos |-> 0, out |-> <<>>], n).pos : n \in 0..Len(data)} \cap 0..(Len(data) - 1)

\* the positions at which compressRecord emits a back-reference
ReferencePositions(data) == {pos \in TurnPositions(data) : findLZMatch(data, pos).length >= MinMatchLen}

\* data[pos-d:pos-d+n] = data[pos:pos+n]: a match of n bytes at distance d
Candidate(data, pos, d, n) ==
    /\ d >= 1 /\ d <= MaxDistance /\ d <= pos
    /\ n >= MinMatchLen /\ n <= MaxMatchLen /\ pos + n <= Len(data)
    /\ \A k \in 0..(n - 1) : At(data, pos - d + k) = At(data, pos + k)

\* the candidates that end before pos
CandidateBefore(data, pos, d, n) == Candidate(data, pos, d, n) /\ d >= n

\* C28: a back-reference the compressor emits has the greatest match length
\* (3..10) available at a distance of 1..2047 within the record and, among the
\* candidates of that length, the smallest distance.
C28_LongestThenClosest ==
    CodecCompressed =>
        \A pos \in ReferencePositions(cdc.input) :
            LET m == findLZMatch(cdc.input, pos)
            IN  /\ Candidate(cdc.input, pos, m.distance, m.length)
                /\ \A d \in 1..pos, n \in MinMatchLen..MaxMatchLen :
                      Candidate(cdc.input, pos, d, n) =>
                          n < m.length \/ (n = m.length /\ d >= m.distance)

\* what findLZMatch returns: among the candidates that do not reach into the
\* bytes being matched, the greatest length and, for it, the greatest distance
C28_LongestThenFarthest ==
    CodecCompressed =>
        \A pos \in ReferencePositions(cdc.input) :
            LET m == findLZMatch(cdc.input, pos)
            IN  /\ CandidateBefore(cdc.input, pos, m.distance, m.length)
                /\ \A d \in 1..pos, n \in MinMatchLen..MaxMatchLen :
                      CandidateBefore(cdc.input, pos, d, n) =>
                          n < m.length \/ (n = m.length /\ d <= m.distance)

\* ---- C29

\* the positions of the closing tags of html that start in lo..hi
ClosingTagsIn(html, lo, hi) ==
    {q \in lo..hi : hasPrefixAt(html, q, CloseTagPrefix) /\ tagMatch(html, q).ok}

\* the closing tags among tags that are nearest to target
NearestTo(tags, target) == {q \in tags : \A r \in tags : abs(q - target) <= abs(r - target)}

\* the chunk c of html has input beyond its target size and a closing tag in
\* its window
BreakHasClosingTag(c, html) ==
    /\ Len(html) > c.Offset + TargetChunkSize
    /\ ClosingTagsIn(html, c.Offset + MinChunkSize, c.Offset + MaxChunkSize) # {}

\* C29: when the input extends beyond current + 8192 and a closing tag lies
\* in [current + 6144, current + 10240], the chunk that starts at current ends
\* at the closing tag of that window nearest to current + 8192 (straight
\* after its '>').
C29_BreakAtNearestClosingTag ==
    AfterChunkHTML =>
        \A k \in 1..Len(Appended) :
            BreakHasClosingTag(Appended[k], sk.html) =>
                \E q \in NearestTo(ClosingTagsIn(sk.html, Appended[k].Offset + MinChunkSize, Appended[k].Offset + MaxChunkSize),
                                   Appended[k].Offset + TargetChunkSize) :
                    Appended[k].Offset + Appended[k].Length = firstGT(sk.html, q) + 1

\* what ChunkHTML does: parseHTMLTags reports no tag as a closing tag, and
\* every chunk with input beyond its target size is cut at the target size
C29_BreakAtTargetSize ==
    AfterChunkHTML =>
        /\ \A k \in 1..Len(Appended) :
              Len(sk.html) > Appended[k].Offset + TargetChunkSize =>
                  Appended[k].Length = TargetChunkSize
        /\ \A k \in 1..Len(parseHTMLTags(sk.html)) : parseHTMLTags(sk.html)[k].IsOpen

\* ---- C30

\* the content has been chunked and annotated by the writer
Annotated == w.entry = "joint" /\ w.pc # "start" /\ sk.pc = "writer" /\ options.EnableChunking

\* the start of the first opening tag of content that is no closing tag,
\* DOCTYPE, comment or XML declaration (-1: none)
FirstOpeningTag(content) ==
    LET opens == {q \in 0..(Len(content) - 1) :
                     tagMatch(content, q).ok /\ ~hasPrefixAt(content, q, CloseTagPrefix)}
    IN  IF opens = {} THEN -1 ELSE CHOOSE q \in opens : \A r \in opens : q <= r

\* the first whitespace or '>' of the tag that starts at q
AttributePoint(content, q) ==
    CHOOSE r \in q..(Len(content) - 1) :
        /\ isSpace(At(content, r)) \/ At(content, r) = 62
        /\ \A t \in q..(r - 1) : ~isSpace(At(content, t)) /\ At(content, t) # 62

\* the content of a chunk with its aid attribute where C30 puts it
ExpectedAidContent(chunk) ==
    LET content == chunk.Content
        q == FirstOpeningTag(content)
        r == AttributePoint(content, q)
    IN  IF q < 0 THEN content
        ELSE Slice(content, 0, r) \o AidAttrOpen \o chunk.AID \o AidAttrClose \o Slice(content, r, Len(content))

\* C30: for each chunk AssignAIDAttributes inserts ` aid="AID"` inside the
\* first non-control opening tag of the chunk's content, immediately before
\* that tag's '>' or its first whitespace, and changes no other byte.
C30_AidInsideFirstOpeningTag ==
    Annotated => w.kf8Content = Concat([k \in 1..Len(Chunks) |-> ExpectedAidContent(Chunks[k])])

\* the inputs on which the writer's output is the one C30 describes: all but
\* "<p>hello world", whose first space follows the tag, and "</p><p>x", whose
\* first tag is a closing tag
C30_AgreesUnlessSpaceAfterTagOrCloseFirst ==
    Annotated =>
        (w.kf8Content = Concat([k \in 1..Len(Chunks) |-> ExpectedAidContent(Chunks[k])])
            <=> book.Content \notin {TxtPara, TxtCloseFirst})
====
